---- MODULE Spec2Model ----
(***************************************************************************)
(* A model of scripts/tz_to_checklist.py: the Markdown requirement         *)
(* extractor (TZParser) and the CSV checklist emitter (ChecklistGenerator).*)
(*                                                                         *)
(* A Python str is modelled as a sequence of Unicode code points, so that  *)
(* lower(), strip(), len(), slicing and the regular expressions of the     *)
(* source are computed character by character.  Every literal is followed  *)
(* by a comment giving the text it encodes.                                *)
(***************************************************************************)
EXTENDS Integers, Sequences, FiniteSets, TLC

(***************************************************************************)
(* Characters and the str methods the source uses.                         *)
(***************************************************************************)

\* str.isspace() / the regex class \s, on the code points the model draws from.
IsSpace(c) == c \in {9, 10, 11, 12, 13, 28, 29, 30, 31, 32, 133, 160}

\* The regex class \d (ASCII digits).
IsDigit(c) == c \in 48..57

\* str.lower() of one character: A-Z, the Cyrillic capitals and the letter Yo.
LowerChar(c) ==
  IF c \in 65..90 \/ c \in 1040..1071 THEN c + 32
  ELSE IF c = 1025 THEN 1105
  ELSE c

\* str.lower()
Lower(t) == SubSeq([i \in 1..Len(t) |-> LowerChar(t[i])], 1, Len(t))

\* t[i:] (1-based i)
From(t, i) == SubSeq(t, i, Len(t))

\* t.startswith(lit, i-1): lit occurs in t at position i.
StartsWithAt(t, i, lit) ==
  /\ i + Len(lit) - 1 <= Len(t)
  /\ \A k \in 1..Len(lit) : t[i + k - 1] = lit[k]

\* str.startswith
StartsWith(t, lit) == StartsWithAt(t, 1, lit)

\* str.endswith
EndsWith(t, lit) ==
  /\ Len(lit) <= Len(t)
  /\ StartsWithAt(t, Len(t) - Len(lit) + 1, lit)

\* lit in t
Contains(t, lit) == \E i \in 1..(Len(t) - Len(lit) + 1) : StartsWithAt(t, i, lit)

\* min(S) of a non-empty set of integers
Least(S) == CHOOSE i \in S : \A j \in S : i <= j

\* str.find: the first position (1-based) of lit in t, 0 when there is none.
Find(t, lit) ==
  IF ~Contains(t, lit) THEN 0
  ELSE Least({i \in 1..(Len(t) - Len(lit) + 1) : StartsWithAt(t, i, lit)})

\* str.count of a single character
Count(t, c) == Cardinality({i \in 1..Len(t) : t[i] = c})

\* The first position >= from holding character c, Len(t)+1 when there is none.
FirstIdx(t, from, c) ==
  IF \A i \in from..Len(t) : t[i] # c THEN Len(t) + 1
  ELSE Least({i \in from..Len(t) : t[i] = c})

\* str.lstrip()
LStrip(t) ==
  IF \A i \in 1..Len(t) : IsSpace(t[i]) THEN <<>>
  ELSE From(t, CHOOSE i \in 1..Len(t) :
                 ~IsSpace(t[i]) /\ \A j \in 1..(i - 1) : IsSpace(t[j]))

\* str.rstrip()
RStrip(t) ==
  IF \A i \in 1..Len(t) : IsSpace(t[i]) THEN <<>>
  ELSE SubSeq(t, 1, CHOOSE i \in 1..Len(t) :
                      ~IsSpace(t[i]) /\ \A j \in (i + 1)..Len(t) : IsSpace(t[j]))

\* str.strip()
Strip(t) == LStrip(RStrip(t))

\* str.rstrip('.')
RStripDots(t) ==
  IF \A i \in 1..Len(t) : t[i] = 46 THEN <<>>
  ELSE SubSeq(t, 1, CHOOSE i \in 1..Len(t) :
                      t[i] # 46 /\ \A j \in (i + 1)..Len(t) : t[j] = 46)

\* sep.join(parts)
RECURSIVE Join(_, _)
Join(parts, sep) ==
  IF parts = <<>> THEN <<>>
  ELSE IF Len(parts) = 1 THEN parts[1]
  ELSE parts[1] \o sep \o Join(Tail(parts), sep)

\* re.sub of a literal pattern: every occurrence, left to right, not overlapping.
\* ReplaceFrom: the same, given the position f of the first occurrence (0: none).
RECURSIVE ReplaceLit(_, _, _)
ReplaceFrom(t, lit, repl, f) ==
  IF f = 0 THEN t
  ELSE SubSeq(t, 1, f - 1) \o repl \o ReplaceLit(From(t, f + Len(lit)), lit, repl)

ReplaceLit(t, lit, repl) == ReplaceFrom(t, lit, repl, Find(t, lit))

\* The positions re.sub(r'\s+', ' ', t) keeps: every character that is not a
\* space, and the first character of each run of spaces.
KeptIdx(t) ==
  SelectSeq([i \in 1..Len(t) |-> i],
            LAMBDA i : ~IsSpace(t[i]) \/ i = 1 \/ ~IsSpace(t[i - 1]))

\* The characters at the positions at, a space written as ' '.
CollapseAt(t, at) ==
  SubSeq([k \in 1..Len(at) |-> IF IsSpace(t[at[k]]) THEN 32 ELSE t[at[k]]], 1, Len(at))

\* re.sub(r'\s+', ' ', t)
CollapseSpaces(t) == CollapseAt(t, KeptIdx(t))

(***************************************************************************)
(* The delimited patterns of clean_text.  Each has the shape               *)
(*     open  ([^stop1]+)  mid  [ [^stop2]+  close ]                        *)
(* with open one of a few literals.  A negated class is greedy and the     *)
(* literal after it begins with the excluded character, so the class run   *)
(* ends at the first stop character and there is nothing to backtrack to.  *)
(* keep: the replacement is group 1 (r'\1'); otherwise it is ''.           *)
(***************************************************************************)

\* r'\[\[([^\]]+)\]\]\([^)]+\)' -> r'\1'
PAT_LINK2 == [opens |-> << <<91, 91>> >>, stop1 |-> 93, mid |-> <<93, 93, 40>>,
              stop2 |-> 41, close |-> <<41>>, keep |-> TRUE]
\* r'\[([^\]]+)\]\([^)]+\)' -> r'\1'
PAT_LINK == [opens |-> << <<91>> >>, stop1 |-> 93, mid |-> <<93, 40>>,
             stop2 |-> 41, close |-> <<41>>, keep |-> TRUE]
\* r'\(https?://[^)]+\)' -> ''   ('(https://' is tried first: s? is greedy)
PAT_URL == [opens |-> << <<40, 104, 116, 116, 112, 115, 58, 47, 47>>,
                         <<40, 104, 116, 116, 112, 58, 47, 47>> >>,
            stop1 |-> 41, mid |-> <<41>>, stop2 |-> 0, close |-> <<>>, keep |-> FALSE]
\* r'\(#[^)]+\)' -> ''
PAT_ANCHOR == [opens |-> << <<40, 35>> >>, stop1 |-> 41, mid |-> <<41>>,
               stop2 |-> 0, close |-> <<>>, keep |-> FALSE]
\* r'\*\*([^*]+)\*\*' -> r'\1'
PAT_BOLD == [opens |-> << <<42, 42>> >>, stop1 |-> 42, mid |-> <<42, 42>>,
             stop2 |-> 0, close |-> <<>>, keep |-> TRUE]
\* r'\*([^*]+)\*' -> r'\1'
PAT_ITALIC == [opens |-> << <<42>> >>, stop1 |-> 42, mid |-> <<42>>,
               stop2 |-> 0, close |-> <<>>, keep |-> TRUE]
\* r'__([^_]+)__' -> r'\1'
PAT_UBOLD == [opens |-> << <<95, 95>> >>, stop1 |-> 95, mid |-> <<95, 95>>,
              stop2 |-> 0, close |-> <<>>, keep |-> TRUE]
\* r'_([^_]+)_' -> r'\1'
PAT_UITALIC == [opens |-> << <<95>> >>, stop1 |-> 95, mid |-> <<95>>,
                stop2 |-> 0, close |-> <<>>, keep |-> TRUE]

\* The opening literal of pat that occurs in t at position i (<<>> when none does).
OpenOf(pat, t, i) ==
  IF \A k \in DOMAIN pat.opens : ~StartsWithAt(t, i, pat.opens[k]) THEN <<>>
  ELSE pat.opens[Least({k \in DOMAIN pat.opens : StartsWithAt(t, i, pat.opens[k])})]

\* A match of a delimited pattern is [last, group]: the position of its last
\* character and its group 1; last = 0 stands for no match.
NoMatchDelim == [last |-> 0, group |-> <<>>]

\* The closing part: the second class run started after mid and ends before e2.
MatchClose(pat, t, p1, e1, e2) ==
  IF e2 = e1 + Len(pat.mid) \/ ~StartsWithAt(t, e2, pat.close) THEN NoMatchDelim
  ELSE [last |-> e2 + Len(pat.close) - 1, group |-> SubSeq(t, p1, e1 - 1)]

\* Group 1 is t[p1..e1-1]: it must not be empty and mid must follow it.
MatchTail(pat, t, p1, e1) ==
  IF e1 = p1 \/ ~StartsWithAt(t, e1, pat.mid) THEN NoMatchDelim
  ELSE IF pat.stop2 = 0
       THEN [last |-> e1 + Len(pat.mid) - 1, group |-> SubSeq(t, p1, e1 - 1)]
       ELSE MatchClose(pat, t, p1, e1, FirstIdx(t, e1 + Len(pat.mid), pat.stop2))

\* The match of pat in t at position i.
MatchDelim(pat, t, i) ==
  IF OpenOf(pat, t, i) = <<>> THEN NoMatchDelim
  ELSE MatchTail(pat, t, i + Len(OpenOf(pat, t, i)),
                 FirstIdx(t, i + Len(OpenOf(pat, t, i)), pat.stop1))

\* The positions of t where pat matches.
MatchesOf(pat, t) == {i \in 1..Len(t) : MatchDelim(pat, t, i).last > 0}

\* re.sub(pat, replacement, t): the leftmost match is replaced and the scan goes on
\* after it, so the matches replaced do not overlap.  SubAt: the same, given the
\* leftmost match m and its position i.
RECURSIVE SubDelim(_, _)
SubAt(pat, t, i, m) ==
  SubSeq(t, 1, i - 1) \o (IF pat.keep THEN m.group ELSE <<>>)
  \o SubDelim(pat, From(t, m.last + 1))

SubFirst(pat, t, i) == SubAt(pat, t, i, MatchDelim(pat, t, i))

SubDelim(pat, t) ==
  IF MatchesOf(pat, t) = {} THEN t ELSE SubFirst(pat, t, Least(MatchesOf(pat, t)))

\* The sixteen substitutions of clean_text, in source order: a delimited pattern
\* (sub), a literal pattern (lit), the whitespace collapse and the final strip.
SubStep(pattern) == [kind |-> "sub", pat |-> pattern, lit |-> <<>>, repl |-> <<>>]
LitStep(literal, replacement) ==
  [kind |-> "lit", pat |-> PAT_BOLD, lit |-> literal, repl |-> replacement]

clean_steps ==
  << SubStep(PAT_LINK2), SubStep(PAT_LINK), SubStep(PAT_URL), SubStep(PAT_ANCHOR),
     \* r'\{\.underline\}' -> ''
     LitStep(<<123, 46, 117, 110, 100, 101, 114, 108, 105, 110, 101, 125>>, <<>>),
     \* r'\{\.mark\}' -> ''
     LitStep(<<123, 46, 109, 97, 114, 107, 125>>, <<>>),
     SubStep(PAT_BOLD), SubStep(PAT_ITALIC), SubStep(PAT_UBOLD), SubStep(PAT_UITALIC),
     LitStep(<<91>>, <<>>),           \* r'\['
     LitStep(<<93>>, <<>>),           \* r'\]'
     LitStep(<<92, 34>>, <<34>>),     \* r'\\\"' : a backslash and a quote
     LitStep(<<92, 34>>, <<34>>),     \* r'\\"'  : the same pattern
     [kind |-> "spaces", pat |-> PAT_BOLD, lit |-> <<>>, repl |-> <<>>],
     [kind |-> "strip", pat |-> PAT_BOLD, lit |-> <<>>, repl |-> <<>>] >>

\* One substitution applied to t.
CleanStep(step, t) ==
  IF step.kind = "sub" THEN SubDelim(step.pat, t)
  ELSE IF step.kind = "lit" THEN ReplaceLit(t, step.lit, step.repl)
  ELSE IF step.kind = "spaces" THEN CollapseSpaces(t)
  ELSE Strip(t)

\* The steps from the k-th on, applied to t, the result of the steps before them.
\* No step adds a character to the empty string.
RECURSIVE CleanFrom(_, _)
CleanFrom(k, t) ==
  IF k > Len(clean_steps) \/ t = <<>> THEN t
  ELSE CleanFrom(k + 1, CleanStep(clean_steps[k], t))

\* TZParser.clean_text
clean_text(text) == CleanFrom(1, text)

(***************************************************************************)
(* The configured vocabularies of TZParser.                                *)
(***************************************************************************)

\* TZParser.FUNCTIONAL_MARKERS
FUNCTIONAL_MARKERS ==
  <<
    <<1076, 1086, 1083, 1078, 1077, 1085>>,  \* 'должен'
    <<1076, 1086, 1083, 1078, 1085, 1072>>,  \* 'должна'
    <<1076, 1086, 1083, 1078, 1085, 1086>>,  \* 'должно'
    <<1076, 1086, 1083, 1078, 1085, 1099>>,  \* 'должны'
    <<1084, 1086, 1078, 1077, 1090>>,  \* 'может'
    <<1084, 1086, 1075, 1091, 1090>>,  \* 'могут'
    <<1084, 1086, 1078, 1085, 1086>>,  \* 'можно'
    <<1086, 1090, 1086, 1073, 1088, 1072, 1078, 1072, 1077, 1090, 1089, 1103>>,  \* 'отображается'
    <<1086, 1090, 1086, 1073, 1088, 1072, 1078, 1072, 1102, 1090, 1089, 1103>>,  \* 'отображаются'
    <<1086, 1090, 1086, 1073, 1088, 1072, 1078, 1077, 1085, 1080, 1077>>,  \* 'отображение'
    <<1076, 1086, 1089, 1090, 1091, 1087, 1077, 1085>>,  \* 'доступен'
    <<1076, 1086, 1089, 1090, 1091, 1087, 1085, 1072>>,  \* 'доступна'
    <<1076, 1086, 1089, 1090, 1091, 1087, 1085, 1086>>,  \* 'доступно'
    <<1076, 1086, 1089, 1090, 1091, 1087, 1085, 1099>>,  \* 'доступны'
    <<1089, 1086, 1076, 1077, 1088, 1078, 1080, 1090>>,  \* 'содержит'
    <<1089, 1086, 1076, 1077, 1088, 1078, 1080, 1090, 1089, 1103>>,  \* 'содержится'
    <<1089, 1086, 1076, 1077, 1088, 1078, 1072, 1090>>,  \* 'содержат'
    <<1087, 1086, 1079, 1074, 1086, 1083, 1103, 1077, 1090>>,  \* 'позволяет'
    <<1087, 1086, 1079, 1074, 1086, 1083, 1103, 1102, 1090>>,  \* 'позволяют'
    <<1087, 1086, 1076, 1076, 1077, 1088, 1078, 1080, 1074, 1072, 1077, 1090>>,  \* 'поддерживает'
    <<1087, 1086, 1076, 1076, 1077, 1088, 1078, 1080, 1074, 1072, 1077, 1090, 1089, 1103>>,  \* 'поддерживается'
    <<1074, 1099, 1087, 1086, 1083, 1085, 1103, 1077, 1090, 1089, 1103>>,  \* 'выполняется'
    <<1074, 1099, 1087, 1086, 1083, 1085, 1103, 1077, 1090>>,  \* 'выполняет'
    <<1087, 1088, 1086, 1080, 1089, 1093, 1086, 1076, 1080, 1090>>,  \* 'происходит'
    <<1086, 1089, 1091, 1097, 1077, 1089, 1090, 1074, 1083, 1103, 1077, 1090, 1089, 1103>>,  \* 'осуществляется'
    <<1086, 1090, 1082, 1088, 1099, 1074, 1072, 1077, 1090, 1089, 1103>>,  \* 'открывается'
    <<1079, 1072, 1082, 1088, 1099, 1074, 1072, 1077, 1090, 1089, 1103>>,  \* 'закрывается'
    <<1074, 1082, 1083, 1102, 1095, 1072, 1077, 1090>>,  \* 'включает'
    <<1074, 1082, 1083, 1102, 1095, 1072, 1077, 1090, 1089, 1103>>,  \* 'включается'
    <<1080, 1084, 1077, 1077, 1090>>,  \* 'имеет'
    <<1080, 1084, 1077, 1102, 1090>>,  \* 'имеют'
    <<1080, 1089, 1087, 1086, 1083, 1100, 1079, 1091, 1077, 1090>>,  \* 'использует'
    <<1080, 1089, 1087, 1086, 1083, 1100, 1079, 1091, 1077, 1090, 1089, 1103>>,  \* 'используется'
    <<1080, 1089, 1087, 1086, 1083, 1100, 1079, 1091, 1102, 1090>>,  \* 'используют'
    <<1087, 1088, 1080, 32, 1085, 1072, 1078, 1072, 1090, 1080, 1080>>,  \* 'при нажатии'
    <<1087, 1088, 1080, 32, 1074, 1099, 1073, 1086, 1088, 1077>>,  \* 'при выборе'
    <<1087, 1088, 1080, 32, 1074, 1074, 1086, 1076, 1077>>,  \* 'при вводе'
    <<1080, 1075, 1088, 1086, 1082>>,  \* 'игрок'
    <<1087, 1086, 1083, 1100, 1079, 1086, 1074, 1072, 1090, 1077, 1083, 1100>>,  \* 'пользователь'
    <<1087, 1077, 1088, 1089, 1086, 1085, 1072, 1078>>,  \* 'персонаж'
    <<1075, 1083, 1072, 1076, 1080, 1072, 1090, 1086, 1088>>,  \* 'гладиатор'
    <<1089, 1080, 1089, 1090, 1077, 1084, 1072>>,  \* 'система'
    <<1092, 1091, 1085, 1082, 1094, 1080, 1103>>,  \* 'функция'
    <<1084, 1077, 1093, 1072, 1085, 1080, 1082, 1072>>,  \* 'механика'
    <<1082, 1085, 1086, 1087, 1082, 1072>>,  \* 'кнопка'
    <<1101, 1082, 1088, 1072, 1085>>,  \* 'экран'
    <<1084, 1077, 1085, 1102>>,  \* 'меню'
    <<1089, 1087, 1080, 1089, 1086, 1082>>,  \* 'список'
    <<1089, 1086, 1088, 1090, 1080, 1088, 1086, 1074, 1082, 1072>>,  \* 'сортировка'
    <<1092, 1080, 1083, 1100, 1090, 1088>>,  \* 'фильтр'
    <<1085, 1072, 1095, 1080, 1089, 1083, 1103, 1077, 1090, 1089, 1103>>,  \* 'начисляется'
    <<1088, 1072, 1089, 1093, 1086, 1076, 1091, 1077, 1090, 1089, 1103>>,  \* 'расходуется'
    <<1087, 1086, 1083, 1091, 1095, 1072, 1077, 1090>>,  \* 'получает'
    <<1091, 1074, 1077, 1083, 1080, 1095, 1080, 1074, 1072, 1077, 1090, 1089, 1103>>,  \* 'увеличивается'
    <<1091, 1084, 1077, 1085, 1100, 1096, 1072, 1077, 1090, 1089, 1103>>,  \* 'уменьшается'
    <<1089, 1085, 1080, 1078, 1072, 1077, 1090, 1089, 1103>>,  \* 'снижается'
    <<1072, 1082, 1090, 1080, 1074, 1080, 1088, 1091, 1077, 1090, 1089, 1103>>,  \* 'активируется'
    <<1076, 1077, 1072, 1082, 1090, 1080, 1074, 1080, 1088, 1091, 1077, 1090, 1089, 1103>>,  \* 'деактивируется'
    <<1088, 1072, 1073, 1086, 1090, 1072, 1077, 1090>>,  \* 'работает'
    <<1089, 1088, 1072, 1073, 1072, 1090, 1099, 1074, 1072, 1077, 1090>>  \* 'срабатывает'
  >>

\* TZParser.EXCLUDE_PATTERNS, each anchored by '^' in the source.  r'^\s*$' is
\* AllSpace below; r'^Значения? указан' is listed as its two alternatives.
EXCLUDE_PATTERNS ==
  <<
    << <<1088, 1080, 1089, 46>> >>,  \* r'^рис\.'
    << <<1090, 1072, 1073, 1083, 1080, 1094, 1072>> >>,  \* r'^таблица'
    << <<42, 42>> >>,  \* r'^\*\*'
    << <<91, 91>> >>,  \* r'^\[\['
    << <<33, 91>> >>,  \* r'^!\['
    << <<45, 45, 45>> >>,  \* r'^---'
    << <<35>> >>,  \* r'^#'
    << <<71, 73, 70>> >>,  \* r'^GIF'
    << <<1060, 1086, 1088, 1084, 1091, 1083, 1072>> >>,  \* r'^Формула'
    << <<1047, 1085, 1072, 1095, 1077, 1085, 1080, 1103, 32, 1091, 1082, 1072, 1079, 1072, 1085>> >>,  \* r'^Значения? указан'
    << <<1047, 1085, 1072, 1095, 1077, 1085, 1080, 32, 1091, 1082, 1072, 1079, 1072, 1085>> >>,  \* r'^Значения? указан'
    << <<1058, 1077, 1082, 1089, 1090, 32>>, <<32, 1073, 1091, 1076, 1077, 1090, 32, 1086, 1087, 1088, 1077, 1076, 1077, 1083, 1077, 1085>> >>,  \* r'^Текст .* будет определен'
    << <<1058, 1086, 1095, 1085, 1099, 1081, 32, 1089, 1087, 1080, 1089, 1086, 1082>> >>,  \* r'^Точный список'
    << <<1055, 1086, 1076, 1088, 1086, 1073, 1085, 1077, 1077>> >>,  \* r'^Подробнее'
    << <<1057, 1087, 1080, 1089, 1086, 1082, 32, 1074, 1086, 1079, 1084, 1086, 1078, 1085, 1099, 1093>> >>,  \* r'^Список возможных'
    << <<1055, 1088, 1080, 1084, 1077, 1088>> >>  \* r'^Пример'
  >>

\* TZParser.DESCRIPTIVE_PATTERNS.  A pattern is the sequence of its literal pieces;
\* two pieces are joined by '.*' in the source.
DESCRIPTIVE_PATTERNS ==
  <<
    << <<1090, 1077, 1083, 1086, 32>>, <<32, 1089, 1082, 1086, 1074, 1072, 1085, 1086>> >>,  \* r'тело .* сковано'
    << <<1090, 1077, 1083, 1086, 32>>, <<32, 1080, 1085, 1089, 1090, 1088, 1091, 1084, 1077, 1085, 1090>> >>,  \* r'тело .* инструмент'
    << <<1079, 1072, 1082, 1072, 1083, 1077, 1085, 1085, 1086, 1077, 32, 1090, 1077, 1083, 1086>> >>,  \* r'закаленное тело'
    << <<1088, 1072, 1079, 1091, 1084, 32>>, <<32, 1093, 1086, 1083, 1086, 1076, 1085, 1099, 1081>> >>,  \* r'разум .* холодный'
    << <<1090, 1077, 1083, 1086, 32, 1074, 32, 1087, 1086, 1090, 1091>> >>,  \* r'тело в поту'
    << <<1088, 1072, 1089, 1089, 1090, 1077, 1083, 1077, 1085, 1085, 1099, 1077, 32, 1087, 1086, 32, 1087, 1086, 1083, 1091>> >>,  \* r'расстеленные по полу'
    << <<1086, 1085, 32>>, <<32, 1085, 1072, 32, 1074, 1077, 1088, 1096, 1080, 1085, 1077>> >>,  \* r'он .* на вершине'
    << <<1087, 1091, 1090, 1100, 32, 1073, 1099, 1083, 32, 1076, 1086, 1083, 1086, 1075>> >>,  \* r'путь был долог'
    << <<1086, 1085, 1072, 32, 1087, 1088, 1077, 1082, 1088, 1072, 1089, 1085, 1072>> >>,  \* r'она прекрасна'
    << <<1090, 1088, 1086, 1087, 1072, 32, 1089, 1083, 1072, 1074, 1099>> >>,  \* r'тропа славы'
    << <<1050, 1088, 1072, 1090, 1082, 1072, 1103, 32, 1089, 1091, 1090, 1100, 32, 1087, 1088, 1086, 1077, 1082, 1090, 1072>> >>,  \* r'Краткая суть проекта'
    << <<1041, 1083, 1080, 1078, 1072, 1081, 1096, 1080, 1077, 32, 1072, 1085, 1072, 1083, 1086, 1075, 1080>> >>,  \* r'Ближайшие аналоги'
    << <<1053, 1072, 1079, 1074, 1072, 1085, 1080, 1077, 32, 1087, 1088, 1086, 1077, 1082, 1090, 1072>> >>,  \* r'Название проекта'
    << <<1046, 1072, 1085, 1088, 58>> >>,  \* r'Жанр:'
    << <<1055, 1083, 1072, 1090, 1092, 1086, 1088, 1084, 1072, 58>> >>,  \* r'Платформа:'
    << <<1051, 1086, 1082, 1072, 1083, 1080, 1079, 1072, 1094, 1080, 1103, 58>> >>,  \* r'Локализация:'
    << <<1060, 1086, 1088, 1084, 1072, 1090, 58>> >>,  \* r'Формат:'
    << <<1057, 1090, 1080, 1083, 1100, 58>> >>,  \* r'Стиль:'
    << <<1056, 1077, 1078, 1080, 1084, 32, 1080, 1075, 1088, 1099>> >>,  \* r'Режим игры'
    << <<1043, 1088, 1072, 1092, 1080, 1095, 1077, 1089, 1082, 1072, 1103, 32, 1095, 1072, 1089, 1090, 1100>> >>,  \* r'Графическая часть'
    << <<1058, 1077, 1093, 1085, 1080, 1095, 1077, 1089, 1082, 1080, 1077, 32, 1090, 1088, 1077, 1073, 1086, 1074, 1072, 1085, 1080, 1103>> >>,  \* r'Технические требования'
    << <<1074, 1089, 1077, 32, 1079, 1085, 1072, 1095, 1077, 1085, 1080, 1103, 32, 1091, 1082, 1072, 1079, 1072, 1085, 1099, 32, 1076, 1083, 1103, 32, 1090, 1077, 1089, 1090, 1086, 1074>> >>  \* r'все значения указаны для тестов'
  >>

\* TZParser.SPLIT_MARKERS
SPLIT_MARKERS ==
  <<
    <<44, 32, 1072, 32, 1090, 1072, 1082, 1078, 1077>>,  \* ', а также'
    <<44, 32, 1072, 32>>,  \* ', а '
    <<46, 32, 1050, 1088, 1086, 1084, 1077, 32, 1090, 1086, 1075, 1086, 44>>,  \* '. Кроме того,'
    <<46, 32, 1058, 1072, 1082, 1078, 1077, 32>>,  \* '. Также '
    <<46, 32, 1055, 1088, 1080, 32, 1101, 1090, 1086, 1084, 32>>,  \* '. При этом '
    <<44, 32, 1087, 1088, 1080, 32, 1101, 1090, 1086, 1084, 32>>,  \* ', при этом '
    <<44, 32, 1075, 1076, 1077, 32>>  \* ', где '
  >>

\* verb_starts of is_functional_requirement
verb_starts ==
  <<
    <<1074, 32>>,  \* 'в '
    <<1085, 1072, 32>>,  \* 'на '
    <<1087, 1088, 1080, 32>>,  \* 'при '
    <<1087, 1086, 1089, 1083, 1077, 32>>,  \* 'после '
    <<1076, 1086, 32>>,  \* 'до '
    <<1076, 1083, 1103, 32>>,  \* 'для '
    <<1077, 1089, 1083, 1080, 32>>,  \* 'если '
    <<1082, 1072, 1078, 1076, 1099, 1081>>,  \* 'каждый'
    <<1082, 1072, 1078, 1076, 1072, 1103>>,  \* 'каждая'
    <<1082, 1072, 1078, 1076, 1086, 1077>>,  \* 'каждое'
    <<1074, 1089, 1077, 32>>,  \* 'все '
    <<1083, 1102, 1073, 1086, 1081>>,  \* 'любой'
    <<1083, 1102, 1073, 1072, 1103>>  \* 'любая'
  >>

\* valid_list_markers of is_list_item_valid
valid_list_markers ==
  <<
    <<1089, 1086, 1088, 1090, 1080, 1088, 1086, 1074, 1082, 1072>>,  \* 'сортировка'
    <<1092, 1080, 1083, 1100, 1090, 1088>>,  \* 'фильтр'
    <<1082, 1072, 1090, 1077, 1075, 1086, 1088, 1080, 1103>>,  \* 'категория'
    <<1086, 1088, 1091, 1078, 1080, 1077>>,  \* 'оружие'
    <<1073, 1088, 1086, 1085, 1103>>,  \* 'броня'
    <<1088, 1072, 1089, 1093, 1086, 1076, 1091, 1077, 1084>>,  \* 'расходуем'
    <<1087, 1086, 1074, 1099, 1096, 1077, 1085, 1080, 1077>>,  \* 'повышение'
    <<1087, 1086, 1085, 1080, 1078, 1077, 1085, 1080, 1077>>,  \* 'понижение'
    <<1091, 1083, 1091, 1095, 1096, 1077, 1085, 1080, 1077>>,  \* 'улучшение'
    <<1087, 1088, 1086, 1076, 1072, 1090, 1100>>,  \* 'продать'
    <<1082, 1091, 1087, 1080, 1090, 1100>>,  \* 'купить'
    <<1074, 1099, 1089, 1090, 1072, 1074, 1080, 1090, 1100>>,  \* 'выставить'
    <<1087, 1086, 32, 1080, 1084, 1077, 1085>>,  \* 'по имен'
    <<1087, 1086, 32, 1088, 1072, 1085, 1075>>,  \* 'по ранг'
    <<1087, 1086, 32, 1088, 1077, 1076, 1082, 1086, 1089, 1090>>,  \* 'по редкост'
    <<1087, 1086, 32, 1085, 1072, 1079, 1074, 1072, 1085, 1080>>,  \* 'по названи'
    <<1074, 1072, 1083, 1102, 1090, 1072>>,  \* 'валюта'
    <<115, 111, 102, 116>>,  \* 'soft'
    <<104, 97, 114, 100>>  \* 'hard'
  >>

(***************************************************************************)
(* The classifier.                                                         *)
(***************************************************************************)

\* pieces[1] .* pieces[2] .* ... matches t starting at position i ('.' does not
\* match a line feed).
RECURSIVE MatchPiecesAt(_, _, _)
MatchPiecesAt(pieces, t, i) ==
  /\ StartsWithAt(t, i, pieces[1])
  /\ \/ Len(pieces) = 1
     \/ \E j \in (i + Len(pieces[1]))..Len(t) :
          /\ \A k \in (i + Len(pieces[1]))..(j - 1) : t[k] # 10
          /\ MatchPiecesAt(Tail(pieces), t, j)

\* re.search(pattern, t)
re_search(pieces, t) == \E i \in 1..Len(t) : MatchPiecesAt(pieces, t, i)

\* r'^\s*$'
AllSpace(t) == \A i \in 1..Len(t) : IsSpace(t[i])

\* any(re.search(pattern, text, re.IGNORECASE) for pattern in EXCLUDE_PATTERNS)
exclude_match(text) ==
  \/ AllSpace(text)
  \/ \E k \in DOMAIN EXCLUDE_PATTERNS :
       MatchPiecesAt([p \in DOMAIN EXCLUDE_PATTERNS[k] |-> Lower(EXCLUDE_PATTERNS[k][p])],
                     Lower(text), 1)

\* TZParser.is_descriptive_text: the patterns are searched, as written, in the
\* lowercased text.
is_descriptive_text(text) ==
  \E k \in DOMAIN DESCRIPTIVE_PATTERNS : re_search(DESCRIPTIVE_PATTERNS[k], Lower(text))

\* A marker test that looks for the marker at the start of the text only.
starts_with_marker(text_lower) ==
  \E k \in DOMAIN FUNCTIONAL_MARKERS : StartsWith(text_lower, FUNCTIONAL_MARKERS[k])

\* any(marker in text_lower for marker in self.FUNCTIONAL_MARKERS)
has_marker(text_lower) ==
  \E k \in DOMAIN FUNCTIONAL_MARKERS : Contains(text_lower, FUNCTIONAL_MARKERS[k])

\* any(text_lower.startswith(v) for v in verb_starts)
has_verb_start(text_lower) ==
  \E k \in DOMAIN verb_starts : StartsWith(text_lower, verb_starts[k])

\* A length test that takes 15 characters for too short as well.
at_most_15(text) == Len(text) <= 15

\* if len(text) < 15
too_short(text) == Len(text) < 15

\* if len(text) > 400
too_long(text) == Len(text) > 400

\* The test of is_functional_requirement that decides text: the first, in source
\* order, that holds.
functional_rule(text) ==
  IF is_descriptive_text(text) THEN "descriptive"
  ELSE IF exclude_match(text) THEN "exclude"
  ELSE IF too_short(text) THEN "short"
  ELSE IF too_long(text) THEN "long"
  ELSE IF has_marker(Lower(text)) THEN "marker"
  ELSE IF has_verb_start(Lower(text)) THEN "verb_start"
  ELSE "none"

\* TZParser.is_functional_requirement: True is returned by the marker test and by
\* the verb_starts test, False by every other.
is_functional_requirement(text) == functional_rule(text) \in {"marker", "verb_start"}

\* any(marker in text_lower for marker in valid_list_markers)
has_list_marker(text_lower) ==
  \E k \in DOMAIN valid_list_markers : Contains(text_lower, valid_list_markers[k])

\* TZParser.is_list_item_valid
is_list_item_valid(text) ==
  IF Len(text) < 5 THEN FALSE
  ELSE IF is_descriptive_text(text) THEN FALSE
  ELSE IF has_list_marker(Lower(text)) THEN TRUE
  ELSE IF Len(text) >= 15 THEN TRUE
  ELSE FALSE

(***************************************************************************)
(* Rewording, splitting and paragraph extraction.                          *)
(***************************************************************************)

\* re.sub(r'^[-*•]\s*', '', t)
StripBullet(t) ==
  IF t # <<>> /\ t[1] \in {45, 42, 8226} THEN LStrip(Tail(t)) ELSE t

\* The position after the digits t begins with.
DigitsEnd(t) ==
  IF \A i \in 1..Len(t) : IsDigit(t[i]) THEN Len(t) + 1
  ELSE Least({i \in 1..Len(t) : ~IsDigit(t[i])})

\* re.sub(r'^\d+[.)]\s*', '', t)
StripNumbering(t) ==
  IF DigitsEnd(t) > 1 /\ DigitsEnd(t) <= Len(t) /\ t[DigitsEnd(t)] \in {46, 41}
  THEN LStrip(From(t, DigitsEnd(t) + 1))
  ELSE t

\* r.rstrip(';')
RStripSemicolons(r) ==
  IF \A i \in 1..Len(r) : r[i] = 59 THEN <<>>
  ELSE SubSeq(r, 1, CHOOSE i \in 1..Len(r) :
                      r[i] # 59 /\ \A j \in (i + 1)..Len(r) : r[j] = 59)

\* re.sub(r';+\s*$', '', t)
StripTrailingSemicolons(t) ==
  IF EndsWith(RStrip(t), <<59>>) THEN RStripSemicolons(RStrip(t)) ELSE t

\* cutoff_patterns of transform_to_check
cutoff_patterns ==
  <<
    <<46, 32>>,                                                    \* '. '
    <<44, 32, 1090, 46, 1077, 46>>,                                \* ', т.е.'
    <<44, 32, 1075, 1076, 1077, 32>>,                              \* ', где '
    <<44, 32, 1082, 1086, 1090, 1086, 1088, 1099, 1081, 32>>,      \* ', который '
    <<44, 32, 1082, 1086, 1090, 1086, 1088, 1072, 1103, 32>>       \* ', которая '
  >>

\* The loop over cutoff_patterns: cut at the first pattern found at 0-based index
\* idx strictly between 80 and 200.
RECURSIVE CutAt(_, _)
CutIf(t, k, idx) ==
  IF 80 < idx /\ idx < 200 THEN SubSeq(t, 1, idx) ELSE CutAt(t, k + 1)

CutAt(t, k) ==
  IF k > Len(cutoff_patterns) THEN t
  ELSE CutIf(t, k, Find(t, cutoff_patterns[k]) - 1)

\* if len(text) > 250: ...
CutLong(t) == IF Len(t) > 250 THEN CutAt(t, 1) ELSE t

\* The statements of transform_to_check, in source order.
transform_steps ==
  <<"clean_text", "bullet", "numbering", "semicolons", "rstrip_dots", "spaces",
    "cut", "strip">>

\* One statement applied to t.
TransformStep(step, t) ==
  IF step = "clean_text" THEN clean_text(t)
  ELSE IF step = "bullet" THEN StripBullet(t)
  ELSE IF step = "numbering" THEN StripNumbering(t)
  ELSE IF step = "semicolons" THEN StripTrailingSemicolons(t)
  ELSE IF step = "rstrip_dots" THEN RStripDots(t)
  ELSE IF step = "spaces" THEN CollapseSpaces(t)
  ELSE IF step = "cut" THEN CutLong(t)
  ELSE Strip(t)

\* The statements from the k-th on, applied to t, the result of those before them.
\* No statement adds a character to the empty string.
RECURSIVE TransformFrom(_, _)
TransformFrom(k, t) ==
  IF k > Len(transform_steps) \/ t = <<>> THEN t
  ELSE TransformFrom(k + 1, TransformStep(transform_steps[k], t))

\* TZParser.transform_to_check
transform_to_check(text) == TransformFrom(1, text)

\* TZParser.split_complex_requirement.  k is the position of the for loop in
\* SPLIT_MARKERS; parts is text.split(marker, 1) when marker is in text.
RECURSIVE SplitFrom(_, _)
\* A split at every marker found, whatever the lengths of the two parts.
SplitPartsAnyLength(text, k, parts) ==
  IF Len(parts) = 2
  THEN SplitFrom(parts[1], 1) \o SplitFrom(parts[2], 1)
  ELSE SplitFrom(text, k + 1)

SplitParts(text, k, parts) ==
  IF Len(parts) = 2 /\ Len(parts[1]) > 30 /\ Len(parts[2]) > 30
  THEN SplitFrom(parts[1], 1) \o SplitFrom(parts[2], 1)
  ELSE SplitFrom(text, k + 1)

SplitOnce(text, marker, f) ==
  IF f = 0 THEN <<text>> ELSE <<SubSeq(text, 1, f - 1), From(text, f + Len(marker))>>

SplitFrom(text, k) ==
  IF k > Len(SPLIT_MARKERS) THEN <<text>>
  ELSE SplitParts(text, k, SplitOnce(text, SPLIT_MARKERS[k], Find(text, SPLIT_MARKERS[k])))

split_complex_requirement(text) == SplitFrom(text, 1)

\* The position of the first ';' or line feed of t, Len(t)+1 when there is none.
FirstSeparator(t) ==
  IF \A i \in 1..Len(t) : t[i] \notin {59, 10} THEN Len(t) + 1
  ELSE Least({i \in 1..Len(t) : t[i] \in {59, 10}})

\* re.split(r'[;\n]', t)
RECURSIVE SplitList(_)
SplitListAt(t, i) ==
  IF i > Len(t) THEN <<t>> ELSE <<SubSeq(t, 1, i - 1)>> \o SplitList(From(t, i + 1))

SplitList(t) == SplitListAt(t, FirstSeparator(t))

\* The body of the for loop of extract_list_items for one stripped part.
ExtractPart(part) ==
  IF Len(part) > 5 /\ Len(StripNumbering(StripBullet(part))) > 5
  THEN <<StripNumbering(StripBullet(part))>>
  ELSE <<>>

\* The for loop of extract_list_items, over parts[k..].
RECURSIVE ExtractFrom(_, _)
ExtractFrom(parts, k) ==
  IF k > Len(parts) THEN <<>>
  ELSE ExtractPart(Strip(parts[k])) \o ExtractFrom(parts, k + 1)

\* An extraction that keeps the text in one piece.
whole_text(text) == <<text>>

\* TZParser.extract_list_items
extract_list_items(text) == ExtractFrom(SplitList(text), 1)

\* ChecklistItem(number=..., name=...): the other fields keep their default ''.
ChecklistItem(number, name) ==
  [number |-> number, name |-> name, android |-> <<>>, ios |-> <<>>, pc |-> <<>>,
   version |-> <<>>, bug_link |-> <<>>, comment |-> <<>>]

\* if self.is_functional_requirement(t): check_text = self.transform_to_check(t)
AcceptedOne(t) ==
  IF is_functional_requirement(t) THEN <<transform_to_check(t)>> ELSE <<>>

\* The texts among texts[k..] that classify as requirements, reworded.
RECURSIVE AcceptedFrom(_, _)
AcceptedFrom(texts, k) ==
  IF k > Len(texts) THEN <<>>
  ELSE AcceptedOne(texts[k]) \o AcceptedFrom(texts, k + 1)

\* group(1).strip() of re.match(r'^([^:]+):\s*', text) given the position c of
\* the first ':' of text; <<>> when there is no match.
IntroUpTo(text, c) ==
  IF c > 1 /\ c <= Len(text) THEN Strip(SubSeq(text, 1, c - 1)) ELSE <<>>

IntroOf(text) == IntroUpTo(text, FirstIdx(text, 1, 58))

\* if len(intro) > 20 and self.is_functional_requirement(intro): ...
IntroNames(intro) ==
  IF Len(intro) > 20 THEN AcceptedOne(intro) ELSE <<>>

\* The names parse_paragraph emits for text, in order.
ParagraphNames(text) ==
  IF is_descriptive_text(text) THEN <<>>
  ELSE IF Count(text, 59) >= 2
       THEN IntroNames(IntroOf(text)) \o AcceptedFrom(extract_list_items(text), 1)
       ELSE IF is_functional_requirement(text)
            THEN AcceptedFrom(split_complex_requirement(text), 1)
            ELSE <<>>

\* Items numbered with the counter as it was before each increment.
NumberedBeforeIncrement(names, current_section, counter) ==
  [i \in 1..Len(names) |->
     [section |-> current_section, item |-> ChecklistItem(counter + i - 1, names[i])]]

\* The (section, item) pairs for names, numbered on from counter.
NumberedItems(names, current_section, counter) ==
  [i \in 1..Len(names) |->
     [section |-> current_section, item |-> ChecklistItem(counter + i, names[i])]]

\* TZParser.parse_paragraph
parse_paragraph(text, current_section, counter) ==
  NumberedItems(ParagraphNames(text), current_section, counter)

(***************************************************************************)
(* The line patterns of TZParser.  A line holds no line feed (parse splits *)
(* the content on '\n'), so '.' matches every character of it.             *)
(***************************************************************************)

\* The number of '#' the line begins with.
HashCount(line) ==
  IF \A i \in 1..Len(line) : line[i] = 35 THEN Len(line)
  ELSE Least({i \in 1..Len(line) : line[i] # 35}) - 1

\* The first position >= from that holds no space, Len(line)+1 when there is none.
SkipSpaces(line, from) ==
  IF \A i \in from..Len(line) : IsSpace(line[i]) THEN Len(line) + 1
  ELSE Least({i \in from..Len(line) : ~IsSpace(line[i])})

\* The last position of the greedy match of r'\d+(?:\.\d+)*\.?' at position p, which
\* holds a digit: the longest run of digits and dots that has no two dots in a row.
NumericStops(line, p) ==
  {i \in (p + 1)..Len(line) : \/ ~(IsDigit(line[i]) \/ line[i] = 46)
                              \/ (line[i] = 46 /\ line[i - 1] = 46)}

NumericEnd(line, p) ==
  IF NumericStops(line, p) = {} THEN Len(line) ELSE Least(NumericStops(line, p)) - 1

NoMatch == [ok |-> FALSE, level |-> 0, num |-> <<>>, title |-> <<>>]

\* HEADER_PATTERN.match(line), r'^(#{1,6})\s*(\d+(?:\.\d+)*\.?)\s*(.+)$'.
\* Group 3 needs one character: when the number runs to the end of the line the
\* number gives its last character back, and when only spaces follow the number
\* r'\s*' gives the last of them back.
header_match(line) ==
  LET k    == HashCount(line)
      p    == SkipSpaces(line, k + 1)
      e    == NumericEnd(line, p)
      rest == From(line, e + 1)
  IN  IF k \notin 1..6 \/ p > Len(line) THEN NoMatch
      ELSE IF ~IsDigit(line[p]) THEN NoMatch
      ELSE IF e < Len(line)
           THEN [ok |-> TRUE, level |-> k, num |-> SubSeq(line, p, e),
                 title |-> IF AllSpace(rest) THEN <<rest[Len(rest)]>> ELSE LStrip(rest)]
           ELSE IF e = p THEN NoMatch
                ELSE [ok |-> TRUE, level |-> k, num |-> SubSeq(line, p, e - 1),
                      title |-> <<line[e]>>]

\* HEADER_MARKED_PATTERN.match(line),
\* r'^(#{1,6})\s*\[(\d+(?:\.\d+)*\.?)\s+([^\]]+)\](?:\{[^}]*\})?'.
header_marked_match(line) ==
  LET k  == HashCount(line)
      p  == SkipSpaces(line, k + 1)
      e  == NumericEnd(line, p + 1)
      w  == SkipSpaces(line, e + 1)
      g  == IF w <= Len(line) /\ line[w] # 93 THEN w ELSE w - 1
      c  == FirstIdx(line, g, 93)
  IN  IF k \notin 1..6 \/ p + 1 > Len(line) THEN NoMatch
      ELSE IF line[p] # 91 \/ ~IsDigit(line[p + 1]) THEN NoMatch
      ELSE IF w = e + 1 \/ g = e + 1 \/ c > Len(line) THEN NoMatch
      ELSE [ok |-> TRUE, level |-> k, num |-> SubSeq(line, p + 1, e),
            title |-> SubSeq(line, g, c - 1)]

\* HEADER_NO_NUM_PATTERN.match(line) is not None, r'^(#{1,6})\s+(.+)$'
header_no_num(line) ==
  LET k == HashCount(line)
  IN  k \in 1..6 /\ k + 2 <= Len(line) /\ IsSpace(line[k + 1])

\* The group of r'\s+(.+)$' from position q on: [ok, text].
SpaceThenText(line, q) ==
  LET w == SkipSpaces(line, q)
  IN  IF q > Len(line) \/ w = q THEN [ok |-> FALSE, text |-> <<>>]
      ELSE IF w <= Len(line) THEN [ok |-> TRUE, text |-> From(line, w)]
      ELSE IF w - 1 > q THEN [ok |-> TRUE, text |-> <<line[Len(line)]>>]
      ELSE [ok |-> FALSE, text |-> <<>>]

\* LIST_ITEM_PATTERN.match(line), r'^\s*[-*•]\s+(.+)$': [ok, text = group 1]
list_match(line) ==
  LET b == SkipSpaces(line, 1)
  IN  IF b <= Len(line) /\ line[b] \in {45, 42, 8226}
      THEN SpaceThenText(line, b + 1)
      ELSE [ok |-> FALSE, text |-> <<>>]

\* NUMBERED_LIST_PATTERN.match(line), r'^\s*\d+[.)]\s+(.+)$': [ok, text = group 1]
numbered_match(line) ==
  LET b == SkipSpaces(line, 1)
      e == b + DigitsEnd(From(line, b)) - 1
  IN  IF e > b /\ e <= Len(line) /\ line[e] \in {46, 41}
      THEN SpaceThenText(line, e + 1)
      ELSE [ok |-> FALSE, text |-> <<>>]

\* line.strip().startswith('```')
IsFence(line) == StartsWith(Strip(line), <<96, 96, 96>>)

\* '|' in line and line.count('|') >= 2
IsTableRow(line) == Count(line, 124) >= 2

\* not line.strip()
IsBlank(line) == Strip(line) = <<>>

\* The test of lines 490-492: the stripped line goes to the paragraph buffer unless it
\* is empty, starts with '!' or '>', or matches r'^\*?Рис\.' or r'^---'.
IsBuffered(stripped) ==
  /\ stripped # <<>>
  /\ ~StartsWith(stripped, <<33>>)
  /\ ~StartsWith(stripped, <<62>>)
  /\ ~StartsWith(stripped, <<1056, 1080, 1089, 46>>)          \* 'Рис.'
  /\ ~StartsWith(stripped, <<42, 1056, 1080, 1089, 46>>)      \* '*Рис.'
  /\ ~StartsWith(stripped, <<45, 45, 45>>)                    \* '---'

(***************************************************************************)
(* TZParser.parse as a state machine: one step per line of the document.   *)
(***************************************************************************)

VARIABLES
  start_section,        \* TZParser.start_section
  checklist_items,      \* TZParser.checklist_items: (section, item) pairs
  item_counter,         \* TZParser.item_counter
  parsing_active,       \* TZParser.parsing_active
  list_context,         \* TZParser.list_context
  lines,                \* the lines of the document the for loop has consumed
  line_limit,           \* the length of the longest document of the run
  current_section,      \* locals of parse
  current_section_num,
  paragraph_buffer,
  in_code_block,
  in_table,
  pc,                   \* where the program is
  text,                 \* the argument of a function under test
  out,                  \* its result
  stack,                \* the calls of a recursion that are still to run
  args,                 \* the numeric arguments of a function under test
  gen_items,            \* ChecklistGenerator.items
  rows,                 \* the rows generate_csv has written
  csv_current_section,  \* locals of generate_csv
  item_num,
  next_item,            \* the position of its for loop in self.items
  output_exists,        \* the output file exists
  stats,                \* what print_stats has printed
  input_exists,         \* the input path exists
  exit_status,          \* the exit status of main, once it has ended
  printed               \* the messages main has printed

parser_vars == <<start_section, checklist_items, item_counter, parsing_active, list_context,
                 lines, line_limit, current_section, current_section_num, paragraph_buffer,
                 in_code_block, in_table>>
fn_vars == <<text, out, stack, args>>
gen_vars == <<gen_items, rows, csv_current_section, item_num, next_item, output_exists, stats>>
main_vars == <<input_exists, exit_status, printed>>
vars == <<parser_vars, pc, fn_vars, gen_vars, main_vars>>

\* The number of lines of the documents explored.
MaxLines == 3

\* TZParser.__init__ followed by the first lines of parse.
ParserInit(start) ==
  /\ start_section = start
  /\ checklist_items = <<>>
  /\ item_counter = 0
  /\ parsing_active = FALSE
  /\ list_context = <<>>
  /\ lines = <<>>
  /\ current_section = <<>>
  /\ current_section_num = <<>>
  /\ paragraph_buffer = <<>>
  /\ in_code_block = FALSE
  /\ in_table = FALSE

\* ChecklistGenerator.__init__
GeneratorInit ==
  /\ gen_items = <<>>
  /\ rows = <<>>
  /\ csv_current_section = <<>>
  /\ item_num = 0
  /\ next_item = 1
  /\ output_exists = FALSE
  /\ stats = <<>>

\* The documents of the run have n lines or fewer.
LinesUpTo(n) == line_limit = n

\* No recursion is running.
NoStack == stack = <<>>

\* No numeric function is being called.
NoArgs == args = <<>>

\* No function is being called on its own.
NoCall ==
  /\ text = <<>>
  /\ out = <<>>
  /\ NoStack
  /\ NoArgs

\* main has found its input and has not ended.
MainRunning ==
  /\ input_exists = TRUE
  /\ exit_status = <<>>
  /\ printed = <<>>

\* ' '.join(paragraph_buffer)
paragraph_text == Join(paragraph_buffer, <<32>>)

\* The loop reads one more line.
Read(line) ==
  /\ pc = "parse"
  /\ Len(lines) < line_limit
  /\ lines' = Append(lines, line)
  /\ UNCHANGED <<start_section, line_limit, pc, fn_vars, gen_vars, main_vars>>

\* self.checklist_items.extend(items), with the self.item_counter += 1 that
\* numbered each of them.
Extend(items) ==
  /\ checklist_items' = checklist_items \o items
  /\ item_counter' = item_counter + Len(items)

\* A flush that passes the number of the section in place of its label.
FlushUnderSectionNum ==
  /\ Extend(parse_paragraph(paragraph_text, current_section_num, item_counter))
  /\ paragraph_buffer' = <<>>

\* items = self.parse_paragraph(paragraph_text, current_section);
\* self.checklist_items.extend(items); paragraph_buffer = []
FlushParagraph ==
  /\ Extend(parse_paragraph(paragraph_text, current_section, item_counter))
  /\ paragraph_buffer' = <<>>

\* A fence line that ends the pending paragraph as well.
CodeFenceEndsParagraph(line) ==
  /\ Read(line)
  /\ IsFence(line)
  /\ in_code_block' = ~in_code_block
  /\ IF paragraph_buffer # <<>> /\ parsing_active
     THEN FlushParagraph
     ELSE UNCHANGED <<checklist_items, item_counter, paragraph_buffer>>
  /\ UNCHANGED <<parsing_active, list_context, current_section, current_section_num,
                 in_table>>

\* Lines 386-388: a fence line toggles in_code_block.
CodeFence(line) ==
  /\ Read(line)
  /\ IsFence(line)
  /\ in_code_block' = ~in_code_block
  /\ UNCHANGED <<checklist_items, item_counter, parsing_active, list_context,
                 current_section, current_section_num, paragraph_buffer, in_table>>

\* Lines 389-390: a line inside a code block is skipped.
InCodeBlock(line) ==
  /\ Read(line)
  /\ ~IsFence(line)
  /\ in_code_block
  /\ UNCHANGED <<checklist_items, item_counter, parsing_active, list_context,
                 current_section, current_section_num, paragraph_buffer,
                 in_code_block, in_table>>

\* A test that forgets the code block.
NotFence(line) == ~IsFence(line)

\* The line is neither a fence nor inside a code block.
PastCode(line) == ~IsFence(line) /\ ~in_code_block

\* Lines 393-395: a line with two or more '|' opens a table.
TableRow(line) ==
  /\ Read(line)
  /\ PastCode(line)
  /\ IsTableRow(line)
  /\ in_table' = TRUE
  /\ UNCHANGED <<checklist_items, item_counter, parsing_active, list_context,
                 current_section, current_section_num, paragraph_buffer, in_code_block>>

\* A blank line that closes the table and ends the paragraph as well.
TableEndFlushes(line) ==
  /\ Read(line)
  /\ PastCode(line)
  /\ ~IsTableRow(line)
  /\ in_table /\ IsBlank(line)
  /\ in_table' = FALSE
  /\ IF paragraph_buffer # <<>> /\ parsing_active
     THEN FlushParagraph
     ELSE UNCHANGED <<checklist_items, item_counter, paragraph_buffer>>
  /\ UNCHANGED <<parsing_active, list_context, current_section, current_section_num,
                 in_code_block>>

\* Lines 396-398: a blank line closes the table.
TableEnd(line) ==
  /\ Read(line)
  /\ PastCode(line)
  /\ ~IsTableRow(line)
  /\ in_table /\ IsBlank(line)
  /\ in_table' = FALSE
  /\ UNCHANGED <<checklist_items, item_counter, parsing_active, list_context,
                 current_section, current_section_num, paragraph_buffer, in_code_block>>

\* Lines 399-400: any other line of a table is skipped.
InTable(line) ==
  /\ Read(line)
  /\ PastCode(line)
  /\ ~IsTableRow(line)
  /\ in_table /\ ~IsBlank(line)
  /\ UNCHANGED <<checklist_items, item_counter, parsing_active, list_context,
                 current_section, current_section_num, paragraph_buffer,
                 in_code_block, in_table>>

\* The line reaches the heading test of line 403.
PastBlocks(line) == PastCode(line) /\ ~IsTableRow(line) /\ ~in_table

\* header_match or header_marked_match
IsNumberedHeader(line) == header_match(line).ok \/ header_marked_match(line).ok

\* match = header_marked_match if header_marked_match else header_match
HeaderOf(line) ==
  IF header_marked_match(line).ok THEN header_marked_match(line) ELSE header_match(line)

\* section_num = match.group(2).rstrip('.')
SectionNum(line) == RStripDots(HeaderOf(line).num)

\* A label without the number of the section.
SectionTitle(line) == clean_text(HeaderOf(line).title)

\* f"{section_num} {section_title}", section_title = self.clean_text(match.group(3))
SectionLabel(line) == SectionNum(line) \o <<32>> \o clean_text(HeaderOf(line).title)

\* section_num.startswith(self.start_section)
InScope(section_num, start) == StartsWith(section_num, start)

\* A scope that, once entered, is never left.
ActiveOnceInScope(section_num) == parsing_active \/ InScope(section_num, start_section)

\* Lines 420-427: self.parsing_active after a heading numbered section_num.
ActiveAfter(section_num) ==
  IF InScope(section_num, start_section) THEN TRUE
  ELSE IF parsing_active THEN FALSE
  ELSE parsing_active

\* A numbered heading that leaves the pending paragraph in the buffer.
NumberedHeaderKeepsBuffer(line) ==
  /\ Read(line)
  /\ PastBlocks(line)
  /\ IsNumberedHeader(line)
  /\ parsing_active' = ActiveAfter(SectionNum(line))
  /\ IF InScope(SectionNum(line), start_section)
     THEN /\ current_section_num' = SectionNum(line)
          /\ current_section' = SectionLabel(line)
     ELSE UNCHANGED <<current_section, current_section_num>>
  /\ UNCHANGED <<checklist_items, item_counter, paragraph_buffer, list_context,
                 in_code_block, in_table>>

\* Lines 406-428: a numbered heading flushes the pending paragraph into the section
\* that was current, then opens its section or closes the scope.
NumberedHeader(line) ==
  /\ Read(line)
  /\ PastBlocks(line)
  /\ IsNumberedHeader(line)
  /\ IF paragraph_buffer # <<>> /\ parsing_active
     THEN FlushParagraph
     ELSE UNCHANGED <<checklist_items, item_counter, paragraph_buffer>>
  /\ parsing_active' = ActiveAfter(SectionNum(line))
  /\ IF InScope(SectionNum(line), start_section)
     THEN /\ current_section_num' = SectionNum(line)
          /\ current_section' = SectionLabel(line)
     ELSE UNCHANGED <<current_section, current_section_num>>
  /\ UNCHANGED <<list_context, in_code_block, in_table>>

\* Lines 431-432: outside the scope every other line is skipped.
Inactive(line) ==
  /\ Read(line)
  /\ PastBlocks(line)
  /\ ~IsNumberedHeader(line)
  /\ ~parsing_active
  /\ UNCHANGED <<checklist_items, item_counter, parsing_active, list_context,
                 current_section, current_section_num, paragraph_buffer,
                 in_code_block, in_table>>

\* The line reaches the tests of lines 435-493.
InBody(line) == PastBlocks(line) /\ ~IsNumberedHeader(line) /\ parsing_active

\* A heading without a number that opens a section of its own.
HeaderNoNumOpensSection(line) ==
  /\ Read(line)
  /\ InBody(line)
  /\ header_no_num(line)
  /\ IF paragraph_buffer # <<>>
     THEN FlushParagraph
     ELSE UNCHANGED <<checklist_items, item_counter, paragraph_buffer>>
  /\ current_section' = Strip(line)
  /\ UNCHANGED <<parsing_active, list_context, current_section_num,
                 in_code_block, in_table>>

\* Lines 435-442: a heading without a number flushes the pending paragraph.
HeaderNoNum(line) ==
  /\ Read(line)
  /\ InBody(line)
  /\ header_no_num(line)
  /\ IF paragraph_buffer # <<>>
     THEN FlushParagraph
     ELSE UNCHANGED <<checklist_items, item_counter, paragraph_buffer>>
  /\ UNCHANGED <<parsing_active, list_context, current_section, current_section_num,
                 in_code_block, in_table>>

\* Lines 445-451: a blank line ends the paragraph.
BlankLine(line) ==
  /\ Read(line)
  /\ InBody(line)
  /\ ~header_no_num(line)
  /\ IsBlank(line)
  /\ IF paragraph_buffer # <<>>
     THEN FlushParagraph
     ELSE UNCHANGED <<checklist_items, item_counter, paragraph_buffer>>
  /\ UNCHANGED <<parsing_active, list_context, current_section, current_section_num,
                 in_code_block, in_table>>

\* list_match or numbered_match
IsListItem(line) == list_match(line).ok \/ numbered_match(line).ok

\* item_text = (list_match or numbered_match).group(1)
ItemText(line) ==
  IF list_match(line).ok THEN list_match(line).text ELSE numbered_match(line).text

\* Lines 471-476: cleaned_item has five characters or more and the item is a
\* requirement or a valid list item.
AcceptedAs(item_text, cleaned_item) ==
  /\ Len(cleaned_item) >= 5
  /\ is_functional_requirement(item_text) \/ is_list_item_valid(cleaned_item)

ListItemAccepted(item_text) == AcceptedAs(item_text, transform_to_check(item_text))

\* Lines 477-481: the item emitted for item_text under number, if any.
ItemEmitted(item_text, number) ==
  IF ListItemAccepted(item_text)
  THEN <<[section |-> current_section,
          item |-> ChecklistItem(number, transform_to_check(item_text))]>>
  ELSE <<>>

\* paragraph_text.rstrip().endswith(':')
IsLead == EndsWith(RStrip(paragraph_text), <<58>>)

\* Lines 458-466: what the pending paragraph contributes before a list item.
ListFlushed ==
  IF paragraph_buffer # <<>> /\ ~IsLead
  THEN parse_paragraph(paragraph_text, current_section, item_counter)
  ELSE <<>>

\* A list context that no list item changes.
ListContextKept == list_context

\* Lines 461 and 465: self.list_context after a list item.
ListContextAfter ==
  IF paragraph_buffer = <<>> THEN list_context
  ELSE IF IsLead
       THEN clean_text(SubSeq(RStrip(paragraph_text), 1, Len(RStrip(paragraph_text)) - 1))
       ELSE <<>>

\* The items of the flushed paragraph, then the list item numbered after them.
ListExtend(flushed, item_text) ==
  Extend(flushed \o ItemEmitted(item_text, item_counter + Len(flushed) + 1))

\* Lines 454-485: a list item.  The pending paragraph becomes the list context when
\* it ends with ':', and is flushed otherwise; then the item itself is classified.
ListItem(line) ==
  /\ Read(line)
  /\ InBody(line)
  /\ ~header_no_num(line) /\ ~IsBlank(line)
  /\ IsListItem(line)
  /\ ListExtend(ListFlushed, ItemText(line))
  /\ list_context' = ListContextAfter
  /\ paragraph_buffer' = <<>>
  /\ UNCHANGED <<parsing_active, current_section, current_section_num,
                 in_code_block, in_table>>

\* Lines 488-493: any other line joins the paragraph buffer, stripped, unless it is
\* an image, a quote, a figure caption or a rule.
TextLine(line) ==
  /\ Read(line)
  /\ InBody(line)
  /\ ~header_no_num(line) /\ ~IsBlank(line) /\ ~IsListItem(line)
  /\ paragraph_buffer' =
       IF IsBuffered(Strip(line)) THEN Append(paragraph_buffer, Strip(line))
       ELSE paragraph_buffer
  /\ UNCHANGED <<checklist_items, item_counter, parsing_active, list_context,
                 current_section, current_section_num, in_code_block, in_table>>

\* An end of the document that leaves the pending paragraph where it is.
EndOfDocumentUnflushed ==
  /\ pc = "parse"
  /\ pc' = "parsed"
  /\ UNCHANGED <<start_section, checklist_items, item_counter, parsing_active,
                 list_context, lines, line_limit, current_section, current_section_num,
                 paragraph_buffer, in_code_block, in_table, fn_vars, gen_vars, main_vars>>

\* Lines 496-499: after the last line the pending paragraph is flushed.
EndOfDocument ==
  /\ pc = "parse"
  /\ pc' = "parsed"
  /\ IF paragraph_buffer # <<>> /\ parsing_active
     THEN FlushParagraph
     ELSE UNCHANGED <<checklist_items, item_counter, paragraph_buffer>>
  /\ UNCHANGED <<start_section, parsing_active, list_context, lines, line_limit,
                 current_section,
                 current_section_num, in_code_block, in_table, fn_vars, gen_vars,
                 main_vars>>

\* One iteration of the for loop of parse on line.
ParseLine(line) ==
  \/ CodeFence(line)
  \/ InCodeBlock(line)
  \/ TableRow(line)
  \/ TableEnd(line)
  \/ InTable(line)
  \/ NumberedHeader(line)
  \/ Inactive(line)
  \/ HeaderNoNum(line)
  \/ BlankLine(line)
  \/ ListItem(line)
  \/ TextLine(line)


(***************************************************************************)
(* The lines the documents are made of, and the start sections.            *)
(***************************************************************************)

\* '## 2.1 Меню'
L_H21 ==
  <<35, 35, 32, 50, 46, 49, 32, 1052, 1077, 1085, 1102>>
\* '## 3.1 Прочее'
L_H31 ==
  <<35, 35, 32, 51, 46, 49, 32, 1055, 1088, 1086, 1095, 1077, 1077>>
\* '# 20.1 Архив'
L_H201 ==
  <<35, 32, 50, 48, 46, 49, 32, 1040, 1088, 1093, 1080, 1074>>
\* '## 2.3 Раздел: Функция X должна отображать кнопку'
L_HREQ ==
  <<35, 35, 32, 50, 46, 51, 32, 1056, 1072, 1079, 1076, 1077, 1083, 58, 32, 1060, 1091, 1085, 1082, 1094, 1080, 1103, 32, 88, 32, 1076, 1086, 1083, 1078, 1085, 1072, 32, 1086, 1090, 1086, 1073, 1088, 1072, 1078, 1072, 1090, 1100, 32, 1082, 1085, 1086, 1087, 1082, 1091>>
\* '### Подраздел'
L_HSUB ==
  <<35, 35, 35, 32, 1055, 1086, 1076, 1088, 1072, 1079, 1076, 1077, 1083>>
\* '```'
L_FENCE ==
  <<96, 96, 96>>
\* '| a | b |'
L_TABLE ==
  <<124, 32, 97, 32, 124, 32, 98, 32, 124>>
\* ''
L_BLANK ==
  <<>>
\* 'Игрок должен видеть кнопку'
L_REQ ==
  <<1048, 1075, 1088, 1086, 1082, 32, 1076, 1086, 1083, 1078, 1077, 1085, 32, 1074, 1080, 1076, 1077, 1090, 1100, 32, 1082, 1085, 1086, 1087, 1082, 1091>>
\* 'Доступные действия:'
L_INTRO ==
  <<1044, 1086, 1089, 1090, 1091, 1087, 1085, 1099, 1077, 32, 1076, 1077, 1081, 1089, 1090, 1074, 1080, 1103, 58>>
\* '- Сортировка по рангу'
L_ITEM ==
  <<45, 32, 1057, 1086, 1088, 1090, 1080, 1088, 1086, 1074, 1082, 1072, 32, 1087, 1086, 32, 1088, 1072, 1085, 1075, 1091>>

LINES == {L_H21, L_H31, L_H201, L_HREQ, L_HSUB, L_FENCE, L_TABLE, L_BLANK, L_REQ, L_INTRO, L_ITEM}

\* --start-section: '2' (the default) and '3'
START_SECTIONS == {<<50>>, <<51>>}

ParseInit ==
  /\ \E start \in START_SECTIONS : ParserInit(start)
  /\ LinesUpTo(MaxLines)
  /\ pc = "parse"
  /\ NoCall
  /\ GeneratorInit
  /\ MainRunning

ParseNext ==
  \/ \E line \in LINES : ParseLine(line)
  \/ EndOfDocument

SpecParse == ParseInit /\ [][ParseNext]_vars

(***************************************************************************)
(* ChecklistGenerator: add_items and generate_csv, one step per item.      *)
(***************************************************************************)

\* ChecklistGenerator.CSV_HEADER:
\*   № п\п
\*   Название
\*   Android
\*   IOS
\*   ПК
\*   Версия сборки
\*   Ссылка на баг-репорт
\*   Комментарий
CSV_HEADER ==
  <<
    <<8470, 32, 1087, 92, 1087>>,
    <<1053, 1072, 1079, 1074, 1072, 1085, 1080, 1077>>,
    <<65, 110, 100, 114, 111, 105, 100>>,
    <<73, 79, 83>>,
    <<1055, 1050>>,
    <<1042, 1077, 1088, 1089, 1080, 1103, 32, 1089, 1073, 1086, 1088, 1082, 1080>>,
    <<1057, 1089, 1099, 1083, 1082, 1072, 32, 1085, 1072, 32, 1073, 1072, 1075, 45, 1088, 1077, 1087, 1086, 1088, 1090>>,
    <<1050, 1086, 1084, 1084, 1077, 1085, 1090, 1072, 1088, 1080, 1081>>
  >>

\* str(n) of a number n >= 0, as csv.writer writes it.
RECURSIVE Decimal(_)
Decimal(n) == IF n < 10 THEN <<48 + n>> ELSE Decimal(n \div 10) \o <<48 + (n % 10)>>

\* is_intro_line = item.name.rstrip().endswith(':')
IsIntroLine(name) == EndsWith(RStrip(name), <<58>>)

\* A counter that counts the intro lines too.
NumberEveryItem(n, is_intro_line) == n + 1

\* item_num after a row: item_num += 1 in the else branch only.
NextNumber(n, is_intro_line) == IF is_intro_line THEN n ELSE n + 1

\* A row written by writer.writerow: its eight cells, and the position in
\* self.items of the item it was written for (0: the header or a section row).
Row(cells, item) == [cells |-> cells, of |-> item]

\* writer.writerow([section, "", "", "", "", "", "", ""]) when the section changes
SectionRows(section) ==
  IF section # csv_current_section
  THEN <<Row(<<section, <<>>, <<>>, <<>>, <<>>, <<>>, <<>>, <<>> >>, 0)>>
  ELSE <<>>

\* A row that carries the counter on intro lines too.
ItemRowNumbered(item, number) ==
  Row(<<Decimal(number),
        item.name, item.android, item.ios, item.pc, item.version, item.bug_link,
        item.comment>>, next_item)

\* The row of item: its number cell is '' for an intro line, str(number) otherwise.
ItemRow(item, number) ==
  Row(<<IF IsIntroLine(item.name) THEN <<>> ELSE Decimal(number),
        item.name, item.android, item.ios, item.pc, item.version, item.bug_link,
        item.comment>>, next_item)

\* The number of (section, item) pairs the generator is given.
MaxItems == 3

\* ChecklistGenerator.add_items
add_items(items) ==
  /\ pc = "collect"
  /\ Len(gen_items) + Len(items) <= MaxItems
  /\ gen_items' = gen_items \o items
  /\ UNCHANGED <<parser_vars, pc, fn_vars, rows, csv_current_section, item_num, next_item,
                 output_exists, stats, main_vars>>

\* A start of generate_csv that writes the header only when there are items.
WriteHeaderIfItems ==
  /\ pc = "collect"
  /\ pc' = "write"
  /\ rows' = IF gen_items = <<>> THEN <<>> ELSE <<Row(CSV_HEADER, 0)>>
  /\ csv_current_section' = <<>>
  /\ item_num' = 0
  /\ next_item' = 1
  /\ output_exists' = TRUE
  /\ UNCHANGED <<parser_vars, fn_vars, gen_items, stats, main_vars>>

\* generate_csv, lines 520-529: the header row and the locals.
WriteHeader ==
  /\ pc = "collect"
  /\ pc' = "write"
  /\ rows' = <<Row(CSV_HEADER, 0)>>
  /\ csv_current_section' = <<>>
  /\ item_num' = 0
  /\ next_item' = 1
  /\ output_exists' = TRUE
  /\ UNCHANGED <<parser_vars, fn_vars, gen_items, stats, main_vars>>

\* One iteration of the for loop of generate_csv, lines 531-566.
WriteItem ==
  /\ pc = "write"
  /\ next_item <= Len(gen_items)
  /\ rows' = rows \o SectionRows(gen_items[next_item].section)
                  \o <<ItemRow(gen_items[next_item].item,
                               NextNumber(item_num, IsIntroLine(gen_items[next_item].item.name)))>>
  /\ csv_current_section' = gen_items[next_item].section
  /\ item_num' = NextNumber(item_num, IsIntroLine(gen_items[next_item].item.name))
  /\ next_item' = next_item + 1
  /\ UNCHANGED <<parser_vars, pc, fn_vars, gen_items, output_exists, stats, main_vars>>

\* The for loop ends and the file is closed.
CloseCsv ==
  /\ pc = "write"
  /\ next_item > Len(gen_items)
  /\ pc' = "written"
  /\ UNCHANGED <<parser_vars, fn_vars, gen_vars, main_vars>>

\* The positions in items of the items that are not intro lines.
ChecksOf(items) == {k \in DOMAIN items : ~IsIntroLine(items[k].item.name)}

\* A count of the items whose name, as it is, does not end with ':'.
checks_as_written(items) ==
  Cardinality({k \in DOMAIN items : ~EndsWith(items[k].item.name, <<58>>)})

\* actual_checks of print_stats
actual_checks(items) == Cardinality(ChecksOf(items))

\* sections = set(section for section, _ in self.items)
sections_of(items) == {items[k].section : k \in DOMAIN items}

\* section_counts of print_stats: a section is a key once it has an item that is
\* not an intro line.
section_counts(items) ==
  [section \in {items[k].section : k \in ChecksOf(items)} |->
     Cardinality({k \in ChecksOf(items) : items[k].section = section})]

\* ChecklistGenerator.print_stats: the figures it prints.
print_stats ==
  /\ pc = "written"
  /\ pc' = "reported"
  /\ stats' = [actual_checks |-> actual_checks(gen_items),
               intro_lines |-> Len(gen_items) - actual_checks(gen_items),
               sections |-> Cardinality(sections_of(gen_items)),
               section_counts |-> section_counts(gen_items)]
  /\ UNCHANGED <<parser_vars, fn_vars, gen_items, rows, csv_current_section, item_num,
                 next_item, output_exists, main_vars>>

\* '2.1 Меню'
S_MENU ==
  <<50, 46, 49, 32, 1052, 1077, 1085, 1102>>

\* '2.2 Лавка'
S_SHOP ==
  <<50, 46, 50, 32, 1051, 1072, 1074, 1082, 1072>>

\* 'Проверить кнопку'
N_CHECK ==
  <<1055, 1088, 1086, 1074, 1077, 1088, 1080, 1090, 1100, 32, 1082, 1085, 1086, 1087, 1082, 1091>>

\* 'Доступные действия:'
N_INTRO ==
  <<1044, 1086, 1089, 1090, 1091, 1087, 1085, 1099, 1077, 32, 1076, 1077, 1081, 1089, 1090, 1074, 1080, 1103, 58>>

\* 'Итог: '
N_TOTAL ==
  <<1048, 1090, 1086, 1075, 58, 32>>

\* The sections and the item names the generator is given: a check, an intro
\* line, and an intro line with a space after its colon.
SECTIONS == {S_MENU, S_SHOP}
NAMES == {N_CHECK, N_INTRO, N_TOTAL}

\* The comments of the items: '' (the default) and 'x'
COMMENTS == {<<>>, <<120>>}

CsvInit ==
  /\ ParserInit(<<50>>)
  /\ LinesUpTo(MaxLines)
  /\ pc = "collect"
  /\ NoCall
  /\ GeneratorInit
  /\ MainRunning

CsvNext ==
  \/ \E section \in SECTIONS, name \in NAMES, comment \in COMMENTS :
       add_items(<<[section |-> section,
                    item |-> [ChecklistItem(Len(gen_items) + 1, name)
                                EXCEPT !.comment = comment]]>>)
  \/ WriteHeader
  \/ WriteItem
  \/ CloseCsv
  \/ print_stats

SpecCsv == CsvInit /\ [][CsvNext]_vars

(***************************************************************************)
(* The functions called on their own: text is the argument, out the result.*)
(***************************************************************************)

\* The parser and the generator are not running.
Idle ==
  /\ ParserInit(<<50>>)
  /\ LinesUpTo(MaxLines)
  /\ GeneratorInit
  /\ MainRunning

\* The longest argument of clean_text.
MaxCleanLen == 6

\* The characters the arguments of clean_text are made of: '*', 'a' and ' '.
CLEAN_CHARS == {42, 97, 32}

\* The arguments of clean_text.
CLEAN_TEXTS == UNION {[1..n -> CLEAN_CHARS] : n \in 0..MaxCleanLen}

\* out = [clean_text(text)]
CallCleanText ==
  /\ pc = "clean_text"
  /\ out = <<>>
  /\ out' = <<clean_text(text)>>
  /\ UNCHANGED <<parser_vars, pc, text, stack, args, gen_vars, main_vars>>

\* clean_text applied to its own result: out = [clean_text(text), clean_text(out[0])]
CallCleanTextAgain ==
  /\ pc = "clean_text"
  /\ Len(out) = 1
  /\ out' = Append(out, clean_text(out[1]))
  /\ UNCHANGED <<parser_vars, pc, text, stack, args, gen_vars, main_vars>>

CleanInit ==
  /\ Idle
  /\ NoStack
  /\ NoArgs
  /\ pc = "clean_text"
  /\ text \in CLEAN_TEXTS
  /\ out = <<>>

CleanNext == CallCleanText \/ CallCleanTextAgain

SpecClean == CleanInit /\ [][CleanNext]_vars

\* 'Игрок должен видеть кнопку'
B_MARKER ==
  <<1048, 1075, 1088, 1086, 1082, 32, 1076, 1086, 1083, 1078, 1077, 1085, 32, 1074, 1080, 1076, 1077, 1090, 1100, 32, 1082, 1085, 1086, 1087, 1082, 1091>>

\* 'кнопка должна'
B_SHORT ==
  <<1082, 1085, 1086, 1087, 1082, 1072, 32, 1076, 1086, 1083, 1078, 1085, 1072>>

\* 'При входе в лес темно и сыро'
B_WHEN ==
  <<1055, 1088, 1080, 32, 1074, 1093, 1086, 1076, 1077, 32, 1074, 32, 1083, 1077, 1089, 32, 1090, 1077, 1084, 1085, 1086, 32, 1080, 32, 1089, 1099, 1088, 1086>>

\* 'Если идёт сильный дождь'
B_IF ==
  <<1045, 1089, 1083, 1080, 32, 1080, 1076, 1105, 1090, 32, 1089, 1080, 1083, 1100, 1085, 1099, 1081, 32, 1076, 1086, 1078, 1076, 1100>>

\* 'Каждый герой силён и смел'
B_EACH ==
  <<1050, 1072, 1078, 1076, 1099, 1081, 32, 1075, 1077, 1088, 1086, 1081, 32, 1089, 1080, 1083, 1105, 1085, 32, 1080, 32, 1089, 1084, 1077, 1083>>

\* 'Просто длинная фраза без смысла'
B_PLAIN ==
  <<1055, 1088, 1086, 1089, 1090, 1086, 32, 1076, 1083, 1080, 1085, 1085, 1072, 1103, 32, 1092, 1088, 1072, 1079, 1072, 32, 1073, 1077, 1079, 32, 1089, 1084, 1099, 1089, 1083, 1072>>

\* 'тело в поту, игрок должен видеть'
B_SWEAT ==
  <<1090, 1077, 1083, 1086, 32, 1074, 32, 1087, 1086, 1090, 1091, 44, 32, 1080, 1075, 1088, 1086, 1082, 32, 1076, 1086, 1083, 1078, 1077, 1085, 32, 1074, 1080, 1076, 1077, 1090, 1100>>

\* 'Жанр: игрок должен выбрать'
B_GENRE ==
  <<1046, 1072, 1085, 1088, 58, 32, 1080, 1075, 1088, 1086, 1082, 32, 1076, 1086, 1083, 1078, 1077, 1085, 32, 1074, 1099, 1073, 1088, 1072, 1090, 1100>>

\* 'Краткая суть проекта должна быть'
B_GIST ==
  <<1050, 1088, 1072, 1090, 1082, 1072, 1103, 32, 1089, 1091, 1090, 1100, 32, 1087, 1088, 1086, 1077, 1082, 1090, 1072, 32, 1076, 1086, 1083, 1078, 1085, 1072, 32, 1073, 1099, 1090, 1100>>

\* 'Название проекта должно быть'
B_TITLE ==
  <<1053, 1072, 1079, 1074, 1072, 1085, 1080, 1077, 32, 1087, 1088, 1086, 1077, 1082, 1090, 1072, 32, 1076, 1086, 1083, 1078, 1085, 1086, 32, 1073, 1099, 1090, 1100>>

\* 'Платформа: игрок должен выбрать'
B_PLATFORM ==
  <<1055, 1083, 1072, 1090, 1092, 1086, 1088, 1084, 1072, 58, 32, 1080, 1075, 1088, 1086, 1082, 32, 1076, 1086, 1083, 1078, 1077, 1085, 32, 1074, 1099, 1073, 1088, 1072, 1090, 1100>>

\* 'Она прекрасна, игрок должен'
B_SHE ==
  <<1054, 1085, 1072, 32, 1087, 1088, 1077, 1082, 1088, 1072, 1089, 1085, 1072, 44, 32, 1080, 1075, 1088, 1086, 1082, 32, 1076, 1086, 1083, 1078, 1077, 1085>>

\* 'Рис. 1 игрок должен видеть кнопку'
B_FIGURE ==
  <<1056, 1080, 1089, 46, 32, 49, 32, 1080, 1075, 1088, 1086, 1082, 32, 1076, 1086, 1083, 1078, 1077, 1085, 32, 1074, 1080, 1076, 1077, 1090, 1100, 32, 1082, 1085, 1086, 1087, 1082, 1091>>

\* 'Таблица 2 должна отображаться'
B_TABLE ==
  <<1058, 1072, 1073, 1083, 1080, 1094, 1072, 32, 50, 32, 1076, 1086, 1083, 1078, 1085, 1072, 32, 1086, 1090, 1086, 1073, 1088, 1072, 1078, 1072, 1090, 1100, 1089, 1103>>

\* 'ТЕЛО В ПОТУ, игрок должен видеть'
B_SWEAT_CAPS ==
  <<1058, 1045, 1051, 1054, 32, 1042, 32, 1055, 1054, 1058, 1059, 44, 32, 1080, 1075, 1088, 1086, 1082, 32, 1076, 1086, 1083, 1078, 1077, 1085, 32, 1074, 1080, 1076, 1077, 1090, 1100>>

\* 'ыыы'
B_FILL ==
  <<1099, 1099, 1099>>

\* 'В лесу темно и сыро'
B_IN ==
  <<1042, 32, 1083, 1077, 1089, 1091, 32, 1090, 1077, 1084, 1085, 1086, 32, 1080, 32, 1089, 1099, 1088, 1086>>


\* The fragments the classifier is given start as one of these.
BASES == {B_MARKER, B_SHORT, B_WHEN, B_IF, B_EACH, B_PLAIN, B_SWEAT, B_GENRE, B_GIST, B_TITLE, B_PLATFORM, B_SHE, B_FIGURE, B_TABLE, B_SWEAT_CAPS, B_FILL, B_IN}

\* The longest fragment the classifier is given.
MaxFragmentLen == 401

\* The lengths the fragments are cut or filled to.
FRAGMENT_LENGTHS == {14, 15, 400, MaxFragmentLen}

\* base cut to n characters, or filled to n characters with the letter 'ы'.
Fill(base, n) ==
  SubSeq([i \in 1..n |-> IF i <= Len(base) THEN base[i] ELSE 1099], 1, n)

\* The fragments the classifier is given.
CLASSIFIED_TEXTS == BASES \cup {Fill(base, n) : base \in BASES, n \in FRAGMENT_LENGTHS}

\* out = what is_descriptive_text and is_functional_requirement return for text, and
\* the test that decided.
Classify ==
  /\ pc = "classify"
  /\ pc' = "classified"
  /\ out' = [descriptive |-> is_descriptive_text(text),
             functional |-> is_functional_requirement(text),
             rule |-> functional_rule(text)]
  /\ UNCHANGED <<parser_vars, text, stack, args, gen_vars, main_vars>>

ClassifyInit ==
  /\ Idle
  /\ NoStack
  /\ NoArgs
  /\ pc = "classify"
  /\ text \in CLASSIFIED_TEXTS
  /\ out = <<>>

ClassifyNext == Classify

SpecClassify == ClassifyInit /\ [][ClassifyNext]_vars

\* 'Пользователь должен ввести email'
F_EMAIL ==
  <<1055, 1086, 1083, 1100, 1079, 1086, 1074, 1072, 1090, 1077, 1083, 1100, 32, 1076, 1086, 1083, 1078, 1077, 1085, 32, 1074, 1074, 1077, 1089, 1090, 1080, 32, 101, 109, 97, 105, 108>>

\* 'пароль должен быть не короче 8 символов'
F_PASSWORD ==
  <<1087, 1072, 1088, 1086, 1083, 1100, 32, 1076, 1086, 1083, 1078, 1077, 1085, 32, 1073, 1099, 1090, 1100, 32, 1085, 1077, 32, 1082, 1086, 1088, 1086, 1095, 1077, 32, 56, 32, 1089, 1080, 1084, 1074, 1086, 1083, 1086, 1074>>

\* 'капча должна быть пройдена'
F_CAPTCHA ==
  <<1082, 1072, 1087, 1095, 1072, 32, 1076, 1086, 1083, 1078, 1085, 1072, 32, 1073, 1099, 1090, 1100, 32, 1087, 1088, 1086, 1081, 1076, 1077, 1085, 1072>>

\* 'тело в поту'
F_SWEAT ==
  <<1090, 1077, 1083, 1086, 32, 1074, 32, 1087, 1086, 1090, 1091>>

\* '- список должен обновляться'
F_BULLET ==
  <<45, 32, 1089, 1087, 1080, 1089, 1086, 1082, 32, 1076, 1086, 1083, 1078, 1077, 1085, 32, 1086, 1073, 1085, 1086, 1074, 1083, 1103, 1090, 1100, 1089, 1103>>

\* 'и так далее'
F_ETC ==
  <<1080, 32, 1090, 1072, 1082, 32, 1076, 1072, 1083, 1077, 1077>>


\* The clauses the paragraphs are made of.
FRAGMENTS == {F_EMAIL, F_PASSWORD, F_CAPTCHA, F_SWEAT, F_BULLET, F_ETC}

\* The number of clauses of a paragraph.
MaxClauses == 3

\* The paragraphs: one to MaxClauses clauses joined by '; '.
PARAGRAPHS ==
  {Join(clauses, <<59, 32>>) : clauses \in UNION {[1..n -> FRAGMENTS] : n \in 1..MaxClauses}}

\* out = self.parse_paragraph(text, '2.1 Меню') with self.item_counter = 0
CallParseParagraph ==
  /\ pc = "parse_paragraph"
  /\ pc' = "flushed"
  /\ out' = parse_paragraph(text, S_MENU, 0)
  /\ UNCHANGED <<parser_vars, text, stack, args, gen_vars, main_vars>>

ParagraphInit ==
  /\ Idle
  /\ NoStack
  /\ NoArgs
  /\ pc = "parse_paragraph"
  /\ text \in PARAGRAPHS
  /\ out = <<>>

ParagraphNext == CallParseParagraph

SpecParagraph == ParagraphInit /\ [][ParagraphNext]_vars

(***************************************************************************)
(* main: the input is checked, parsed, and the checklist written.          *)
(***************************************************************************)

\* A main that reports the missing file and goes on.
InputNotFoundWarned ==
  /\ pc = "main"
  /\ ~input_exists
  /\ printed' = Append(printed, "not found")
  /\ pc' = "parse"
  /\ UNCHANGED <<parser_vars, fn_vars, gen_vars, input_exists, exit_status>>

\* Lines 623-625: the input path does not exist: the error is printed, sys.exit(1).
InputNotFound ==
  /\ pc = "main"
  /\ ~input_exists
  /\ printed' = Append(printed, "not found")
  /\ exit_status' = <<1>>
  /\ pc' = "exit"
  /\ UNCHANGED <<parser_vars, fn_vars, gen_vars, input_exists>>

\* Lines 627-638: the parser is built and the file loaded.
Load ==
  /\ pc = "main"
  /\ input_exists
  /\ printed' = printed \o <<"loading", "start section">>
  /\ pc' = "parse"
  /\ UNCHANGED <<parser_vars, fn_vars, gen_vars, input_exists, exit_status>>

\* Lines 641-645: the items found go to a new generator.
MainAddItems ==
  /\ pc = "parsed"
  /\ printed' = Append(printed, "found")
  /\ gen_items' = gen_items \o checklist_items
  /\ pc' = "collect"
  /\ UNCHANGED <<parser_vars, fn_vars, rows, csv_current_section, item_num, next_item,
                 output_exists, stats, input_exists, exit_status>>

\* A main that fails when nothing was found.
MainReturnUnlessEmpty ==
  /\ pc = "reported"
  /\ exit_status' = IF gen_items = <<>> THEN <<1>> ELSE <<0>>
  /\ pc' = "exit"
  /\ UNCHANGED <<parser_vars, fn_vars, gen_vars, input_exists, printed>>

\* main returns after print_stats: the process ends with status 0.
MainReturn ==
  /\ pc = "reported"
  /\ exit_status' = <<0>>
  /\ pc' = "exit"
  /\ UNCHANGED <<parser_vars, fn_vars, gen_vars, input_exists, printed>>

\* The lines of the documents given to main.
MAIN_LINES == {L_H21, L_H31, L_REQ, L_INTRO, L_ITEM, L_BLANK}

MainInit ==
  /\ \E start \in START_SECTIONS : ParserInit(start)
  /\ LinesUpTo(MaxLines)
  /\ pc = "main"
  /\ NoCall
  /\ GeneratorInit
  /\ input_exists \in BOOLEAN
  /\ exit_status = <<>>
  /\ printed = <<>>

MainNext ==
  \/ InputNotFound
  \/ Load
  \/ \E line \in MAIN_LINES :
       \/ NumberedHeader(line)
       \/ Inactive(line)
       \/ BlankLine(line)
       \/ ListItem(line)
       \/ TextLine(line)
  \/ EndOfDocument
  \/ MainAddItems
  \/ WriteHeader
  \/ WriteItem
  \/ CloseCsv
  \/ print_stats
  \/ MainReturn

SpecMain == MainInit /\ [][MainNext]_vars

(***************************************************************************)
(* The classifier called while the parser runs.                            *)
(***************************************************************************)

\* 'Сортировка'
T_SORT ==
  <<1057, 1086, 1088, 1090, 1080, 1088, 1086, 1074, 1082, 1072>>

\* The texts given to the classifier.
PURE_TEXTS == {B_MARKER, B_WHEN, B_PLAIN, T_SORT}

\* The number of calls of the classifier in a run.
MaxCalls == 2

\* A classifier that accepts nothing outside the scope.
CallClassifierInScope(t) ==
  /\ pc = "parse"
  /\ Len(out) < MaxCalls
  /\ out' = Append(out, [text |-> t,
                         active |-> parsing_active,
                         functional |-> parsing_active /\ is_functional_requirement(t),
                         valid |-> is_list_item_valid(t)])
  /\ UNCHANGED <<parser_vars, pc, text, stack, args, gen_vars, main_vars>>

\* is_functional_requirement(t) and is_list_item_valid(t), called between two
\* lines of parse: neither reads or writes a field of the parser.  out keeps, for
\* each call, the text, the value of parsing_active at the call, and the results.
CallClassifier(t) ==
  /\ pc = "parse"
  /\ Len(out) < MaxCalls
  /\ out' = Append(out, [text |-> t,
                         active |-> parsing_active,
                         functional |-> is_functional_requirement(t),
                         valid |-> is_list_item_valid(t)])
  /\ UNCHANGED <<parser_vars, pc, text, stack, args, gen_vars, main_vars>>

\* The lines of the documents parsed between the calls.
PURE_LINES == {L_H21, L_H31, L_REQ}

PureInit ==
  /\ ParserInit(<<50>>)
  /\ LinesUpTo(MaxLines)
  /\ pc = "parse"
  /\ NoCall
  /\ GeneratorInit
  /\ MainRunning

PureNext ==
  \/ \E line \in PURE_LINES :
       \/ NumberedHeader(line)
       \/ Inactive(line)
       \/ TextLine(line)
  \/ EndOfDocument
  \/ \E t \in PURE_TEXTS : CallClassifier(t)

SpecPure == PureInit /\ [][PureNext]_vars

(***************************************************************************)
(* The properties.                                                         *)
(***************************************************************************)

\* 'должна отображать кнопку'
PHRASE ==
  <<1076, 1086, 1083, 1078, 1085, 1072, 32, 1086, 1090, 1086, 1073, 1088, 1072, 1078, 1072, 1090, 1100, 32, 1082, 1085, 1086, 1087, 1082, 1091>>

\* '2.3 Раздел: Функция X должна отображать кнопку'
S_REQ ==
  <<50, 46, 51, 32, 1056, 1072, 1079, 1076, 1077, 1083, 58, 32, 1060, 1091, 1085, 1082, 1094, 1080, 1103, 32, 88, 32, 1076, 1086, 1083, 1078, 1085, 1072, 32, 1086, 1090, 1086, 1073, 1088, 1072, 1078, 1072, 1090, 1100, 32, 1082, 1085, 1086, 1087, 1082, 1091>>

\* 'Пользователь должен ввести email; пароль должен быть не короче 8 символов; капча должна быть пройдена'
P_EXAMPLE ==
  <<1055, 1086, 1083, 1100, 1079, 1086, 1074, 1072, 1090, 1077, 1083, 1100, 32, 1076, 1086, 1083, 1078, 1077, 1085, 32, 1074, 1074, 1077, 1089, 1090, 1080, 32, 101, 109, 97, 105, 108, 59, 32, 1087, 1072, 1088, 1086, 1083, 1100, 32, 1076, 1086, 1083, 1078, 1077, 1085, 32, 1073, 1099, 1090, 1100, 32, 1085, 1077, 32, 1082, 1086, 1088, 1086, 1095, 1077, 32, 56, 32, 1089, 1080, 1084, 1074, 1086, 1083, 1086, 1074, 59, 32, 1082, 1072, 1087, 1095, 1072, 32, 1076, 1086, 1083, 1078, 1085, 1072, 32, 1073, 1099, 1090, 1100, 32, 1087, 1088, 1086, 1081, 1076, 1077, 1085, 1072>>

\* The rows written for the items that are not intro lines, in row order.
NumberedRows == SelectSeq(rows, LAMBDA r : r.of > 0 /\ ~IsIntroLine(r.cells[2]))

\* The rows written for the items whose name does not end with ':', in row order.
NonColonRows == SelectSeq(rows, LAMBDA r : r.of > 0 /\ ~EndsWith(r.cells[2], <<58>>))

RECURSIVE HeadingScan(_, _, _, _, _)
HeadingScan(ls, k, code, table, last) ==
  IF k > Len(ls) THEN last
  ELSE IF IsFence(ls[k]) THEN HeadingScan(ls, k + 1, ~code, table, last)
  ELSE IF code THEN HeadingScan(ls, k + 1, code, table, last)
  ELSE IF IsTableRow(ls[k]) THEN HeadingScan(ls, k + 1, code, TRUE, last)
  ELSE IF table THEN HeadingScan(ls, k + 1, code, ~IsBlank(ls[k]), last)
  ELSE IF IsNumberedHeader(ls[k]) THEN HeadingScan(ls, k + 1, code, table, <<ls[k]>>)
  ELSE HeadingScan(ls, k + 1, code, table, last)

LastHeading(ls) == HeadingScan(ls, 1, FALSE, FALSE, <<>>)

\* The numeric path of the most recent numbered heading of ls starts with
\* start_section.
LastHeadingInScope(ls) ==
  /\ LastHeading(ls) # <<>>
  /\ StartsWith(RStripDots(HeaderOf(LastHeading(ls)[1]).num), start_section)

\* C2: after any prefix of the lines, parsing_active is true exactly when a
\* numbered heading has been processed outside code and table blocks and the
\* numeric path of the most recent one starts with start_section.
C2_ActiveIffLastHeadingInScope == parsing_active <=> LastHeadingInScope(lines)

\* '2.1' activates, '3.1' deactivates, '20.1' activates again under '2'.
C2_Witness ==
  /\ start_section = <<50>>
  /\ lines = <<L_H21, L_H31, L_H201>>
  /\ parsing_active

\* path + ' ' + cleaned title of the heading h
LabelOf(h) == RStripDots(HeaderOf(h).num) \o <<32>> \o clean_text(HeaderOf(h).title)

\* C3: every item a step emits is paired with the label (path, a space, the
\* cleaned title) of the most recent numbered heading before the line of that
\* step, and the path of that heading starts with start_section; so a paragraph
\* flushed by a heading goes to the section that was current before it, and
\* nothing is emitted while the most recent heading is out of scope.
C3_Attribution ==
  [][\A i \in (Len(checklist_items) + 1)..Len(checklist_items') :
       /\ LastHeadingInScope(lines)
       /\ checklist_items'[i].section = LabelOf(LastHeading(lines)[1])]_vars

\* The paragraph of section 2.1 is flushed by the heading 3.1 and stays in 2.1.
C3_Witness ==
  /\ start_section = <<50>>
  /\ lines = <<L_H21, L_REQ, L_H31>>
  /\ ~parsing_active
  /\ Len(checklist_items) = 1
  /\ checklist_items[1].section = S_MENU

\* The document of C4 has been parsed under --start-section 2.
C4_Document ==
  /\ pc = "parsed"
  /\ start_section = <<50>>
  /\ lines = <<L_HREQ>>

\* C4, as amended: the document made of the line
\* '## 2.3 Раздел: Функция X должна отображать кнопку', parsed with start_section
\* '2', yields no checklist item: the line is a numbered heading, it activates
\* extraction and becomes the current section.
C4_HeadingYieldsNoItem ==
  C4_Document =>
    /\ checklist_items = <<>>
    /\ parsing_active
    /\ current_section = S_REQ

C4_Witness == C4_Document /\ item_counter = 0 /\ current_section_num = <<50, 46, 51>>

\* C4, as stated: that document yields at least one item whose text contains
\* 'должна отображать кнопку'.
C4_Original ==
  C4_Document =>
    \E i \in DOMAIN checklist_items : Contains(checklist_items[i].item.name, PHRASE)

\* C5: a step that reads a line inside a code block, the line not being a fence,
\* emits no item and changes neither the paragraph buffer nor the current section
\* nor the active flag.
C5_CodeBlockSkipped ==
  [][(in_code_block /\ lines' # lines /\ ~IsFence(lines'[Len(lines')]))
       => UNCHANGED <<checklist_items, item_counter, paragraph_buffer,
                      current_section, current_section_num, parsing_active>>]_vars

\* A heading of another section, read inside a code block of section 2.1.
C5_Witness ==
  /\ lines = <<L_H21, L_FENCE, L_H31>>
  /\ in_code_block
  /\ parsing_active
  /\ current_section = S_MENU

\* The positions of the semicolons of t, in order.
SemicolonsOf(t) == SelectSeq([i \in 1..Len(t) |-> i], LAMBDA i : t[i] = 59)

\* The k-th semicolon-delimited fragment of t, stripped, its list marker removed.
ClauseOf(t, k) ==
  StripNumbering(StripBullet(Strip(
    SubSeq(t, IF k = 1 THEN 1 ELSE SemicolonsOf(t)[k - 1] + 1,
              IF k > Len(SemicolonsOf(t)) THEN Len(t) ELSE SemicolonsOf(t)[k] - 1))))

ClausesOf(t) ==
  SubSeq([k \in 1..(Len(SemicolonsOf(t)) + 1) |-> ClauseOf(t, k)],
         1, Len(SemicolonsOf(t)) + 1)

\* The fragments that pass the classifier on their own, reworded, in order.
PassingClauses(t) == SelectSeq(ClausesOf(t), is_functional_requirement)

Reworded(cs) == SubSeq([k \in 1..Len(cs) |-> transform_to_check(cs[k])], 1, Len(cs))

NamesOf(items) == SubSeq([i \in 1..Len(items) |-> items[i].item.name], 1, Len(items))

\* A paragraph with two or more semicolons and no colon has been flushed.
C6_InlineListFlushed ==
  /\ pc = "flushed"
  /\ Count(text, 59) >= 2
  /\ Count(text, 58) = 0

\* C6, as amended: flushing a paragraph with two or more semicolons and no colon
\* emits nothing when the paragraph as a whole matches a descriptive pattern;
\* otherwise it emits one item, the reworded fragment, for each semicolon-delimited
\* fragment (stripped, its list marker removed) that passes the classifier on its
\* own, in source order.  The example paragraph yields exactly three items.
C6_OneItemPerPassingClause ==
  C6_InlineListFlushed =>
    /\ NamesOf(out) = IF is_descriptive_text(text) THEN <<>>
                      ELSE Reworded(PassingClauses(text))
    /\ text = P_EXAMPLE => Len(out) = 3

C6_Witness ==
  /\ pc = "flushed"
  /\ text = P_EXAMPLE
  /\ NamesOf(out) = <<F_EMAIL, F_PASSWORD, F_CAPTCHA>>

\* C6, as stated: one item for each semicolon-delimited fragment that passes the
\* classifier on its own, in source order.
C6_Original ==
  C6_InlineListFlushed => NamesOf(out) = Reworded(PassingClauses(text))

\* C7: clean_text(clean_text(x)) = clean_text(x)
C7_Idempotent ==
  (pc = "clean_text" /\ Len(out) = 2) => out[2] = out[1]

\* C8: a fragment in which an entry of DESCRIPTIVE_PATTERNS matches is descriptive
\* and is not a requirement.
C8_DescriptiveRejected ==
  pc = "classified" =>
    \A k \in DOMAIN DESCRIPTIVE_PATTERNS :
      re_search(DESCRIPTIVE_PATTERNS[k], text) => out.descriptive /\ ~out.functional

ContainsMarker(t) ==
  \E k \in DOMAIN FUNCTIONAL_MARKERS : Contains(Lower(t), FUNCTIONAL_MARKERS[k])

\* The lowercased fragment begins with one of the openers.
BeginsWithOpener(t) ==
  \E k \in DOMAIN verb_starts : StartsWith(Lower(t), verb_starts[k])

I_SORT ==
  <<45, 32, 1057, 1086, 1088, 1090, 1080, 1088, 1086, 1074, 1082, 1072>>

\* '- абв'
I_TINY ==
  <<45, 32, 1072, 1073, 1074>>

\* '* soft'
I_SOFT ==
  <<42, 32, 115, 111, 102, 116>>

\* '- кнопка должна'
I_SHORT ==
  <<45, 32, 1082, 1085, 1086, 1087, 1082, 1072, 32, 1076, 1086, 1083, 1078, 1085, 1072>>

\* '- кнопка **должна**'
I_MARKUP ==
  <<45, 32, 1082, 1085, 1086, 1087, 1082, 1072, 32, 42, 42, 1076, 1086, 1083, 1078, 1085, 1072, 42, 42>>

\* '1. Игрок должен видеть кнопку'
I_NUMBERED ==
  <<49, 46, 32, 1048, 1075, 1088, 1086, 1082, 32, 1076, 1086, 1083, 1078, 1077, 1085, 32, 1074, 1080, 1076, 1077, 1090, 1100, 32, 1082, 1085, 1086, 1087, 1082, 1091>>

\* '- тело в поту и слезах'
I_SWEAT ==
  <<45, 32, 1090, 1077, 1083, 1086, 32, 1074, 32, 1087, 1086, 1090, 1091, 32, 1080, 32, 1089, 1083, 1077, 1079, 1072, 1093>>

\* '• длинное предложение без слов'
I_PLAIN ==
  <<8226, 32, 1076, 1083, 1080, 1085, 1085, 1086, 1077, 32, 1087, 1088, 1077, 1076, 1083, 1086, 1078, 1077, 1085, 1080, 1077, 32, 1073, 1077, 1079, 32, 1089, 1083, 1086, 1074>>

\* The list-item lines: bulleted and numbered, short and long, plain and marked up.
LIST_ITEMS == {I_SORT, I_TINY, I_SOFT, I_SHORT, I_MARKUP, I_NUMBERED, I_SWEAT, I_PLAIN}

\* The lines of the documents with lists.
LIST_LINES == {L_H21, L_INTRO, L_REQ} \cup LIST_ITEMS

ListInit ==
  /\ ParserInit(<<50>>)
  /\ LinesUpTo(MaxLines)
  /\ pc = "parse"
  /\ NoCall
  /\ GeneratorInit
  /\ MainRunning

ListNext ==
  \/ \E line \in LIST_LINES :
       \/ NumberedHeader(line)
       \/ Inactive(line)
       \/ ListItem(line)
       \/ TextLine(line)
  \/ EndOfDocument

SpecList == ListInit /\ [][ListNext]_vars

\* The length of the documents with lead paragraphs.
MaxLeadLines == 5

\* The lines of the documents with lead paragraphs: a heading, a paragraph that
\* ends with ':', one that does not, a list item.
LEAD_LINES == {L_H21, L_INTRO, L_REQ, L_ITEM}

LeadInit ==
  /\ ParserInit(<<50>>)
  /\ LinesUpTo(MaxLeadLines)
  /\ pc = "parse"
  /\ NoCall
  /\ GeneratorInit
  /\ MainRunning

LeadNext ==
  \/ \E line \in LEAD_LINES :
       \/ NumberedHeader(line)
       \/ Inactive(line)
       \/ ListItem(line)
       \/ TextLine(line)
  \/ EndOfDocument

SpecLead == LeadInit /\ [][LeadNext]_vars

\* The line the step reads, if it reads one.
LineRead == {lines'[k] : k \in {Len(lines')} \ {Len(lines)}}

\* line reaches the list-item test of line 457 and passes it.
ListItemReached(line) ==
  /\ parsing_active /\ ~in_code_block /\ ~in_table
  /\ ~IsFence(line) /\ ~IsTableRow(line)
  /\ IsListItem(line)
  /\ ~IsNumberedHeader(line)
  /\ ~header_no_num(line)

\* The lowercased text contains a valid-list-category marker.
ContainsCategory(t) ==
  \E k \in DOMAIN valid_list_markers : Contains(Lower(t), valid_list_markers[k])

\* At least 5 characters, not descriptive, and a category marker or 15 characters.
ListVariantRule(t) ==
  /\ Len(t) >= 5
  /\ ~is_descriptive_text(t)
  /\ ContainsCategory(t) \/ Len(t) >= 15

\* C11: a list-item line read in an active section, no paragraph pending, emits one
\* item when its normalized text has at least 5 characters, is not descriptive and
\* either contains a valid-list-category marker or has at least 15 characters, and
\* emits nothing otherwise.
C11_ListVariant ==
  [][\A line \in LineRead :
       (ListItemReached(line) /\ paragraph_buffer = <<>>) =>
         \A normalized \in {transform_to_check(ItemText(line))} :
           Len(checklist_items') - Len(checklist_items) =
             IF ListVariantRule(normalized) THEN 1 ELSE 0]_vars

\* The positions in rows of the header rows.
HeaderRows == {k \in DOMAIN rows : rows[k].cells = CSV_HEADER}

\* C12: once generate_csv has started writing, and when it has ended, the file
\* holds exactly one header row, and it is the first row, whatever the items are,
\* the empty list included.
C12_OneHeaderFirst ==
  pc \in {"write", "written", "reported"} => HeaderRows = {1}

\* The file written for the empty list.
C12_Witness ==
  /\ pc = "written"
  /\ gen_items = <<>>
  /\ rows = <<Row(CSV_HEADER, 0)>>

\* C13: when the input path does not exist, main has either not yet tested it or
\* has printed the error and ended with status 1, having read no line, extracted
\* no item, and neither created nor written the output file.
C13_MissingInputExits ==
  (~input_exists /\ pc # "main") =>
    /\ pc = "exit"
    /\ exit_status = <<1>>
    /\ printed = <<"not found">>
    /\ lines = <<>> /\ checklist_items = <<>> /\ gen_items = <<>>
    /\ ~output_exists /\ rows = <<>>

C13_Witness ==
  /\ ~input_exists
  /\ pc = "exit"
  /\ exit_status = <<1>>

\* Every line read is blank.
AllBlank == \A k \in DOMAIN lines : IsBlank(lines[k])

\* C14: a document of blank lines only yields no item; whenever parse has yielded
\* no item, generate_csv writes the header row and nothing else; and main, having
\* found its input, ends with status 0.
C14_NoItemsIsNoError ==
  input_exists =>
    /\ (pc \notin {"main", "parse"} /\ AllBlank) => checklist_items = <<>>
    /\ (pc \in {"written", "reported", "exit"} /\ checklist_items = <<>>) =>
         output_exists /\ rows = <<Row(CSV_HEADER, 0)>>
    /\ pc = "exit" => exit_status = <<0>>

\* main has ended on the empty document: one empty line.
C14_Witness ==
  /\ pc = "exit"
  /\ lines = <<L_BLANK>>
  /\ checklist_items = <<>>
  /\ rows = <<Row(CSV_HEADER, 0)>>
  /\ exit_status = <<0>>

\* line is a heading without a numeric path that reaches the test of line 436.
PlainHeadingReached(line) ==
  /\ parsing_active /\ ~in_code_block /\ ~in_table
  /\ ~IsFence(line) /\ ~IsTableRow(line)
  /\ ~IsNumberedHeader(line)
  /\ header_no_num(line)

\* The items of the pending paragraph, flushed under the current section.
PendingItems ==
  IF paragraph_buffer = <<>> THEN <<>>
  ELSE parse_paragraph(Join(paragraph_buffer, <<32>>), current_section, item_counter)

\* C15: a step that reads a heading without a numeric path while extraction is
\* active appends the items of the pending paragraph, empties the paragraph
\* buffer, and leaves the current section and the active flag unchanged.
C15_PlainHeadingFlushes ==
  [][\A line \in LineRead :
       PlainHeadingReached(line) =>
         /\ checklist_items' = checklist_items \o PendingItems
         /\ paragraph_buffer' = <<>>
         /\ UNCHANGED <<current_section, current_section_num, parsing_active>>]_vars

\* '### Подраздел' has flushed the paragraph of section 2.1.
C15_Witness ==
  /\ lines = <<L_H21, L_REQ, L_HSUB>>
  /\ paragraph_buffer = <<>>
  /\ Len(checklist_items) = 1
  /\ parsing_active
  /\ current_section = S_MENU

\* The items a step has appended.
NewItems == SubSeq(checklist_items', Len(checklist_items) + 1, Len(checklist_items'))

\* items holds at most the item of the list item line itself.
OwnItemOnly(items, line) ==
  /\ Len(items) <= 1
  /\ \A i \in DOMAIN items : items[i].item.name = transform_to_check(ItemText(line))

\* What a list item read after the pending paragraph p does with p.
LeadOrFlush(p, line) ==
  IF EndsWith(p, <<58>>)
  THEN /\ list_context' = clean_text(SubSeq(p, 1, Len(p) - 1))
       /\ OwnItemOnly(NewItems, line)
  ELSE /\ list_context' = <<>>
       /\ \A flushed \in {parse_paragraph(p, current_section, item_counter)} :
            /\ Len(NewItems) >= Len(flushed)
            /\ SubSeq(NewItems, 1, Len(flushed)) = flushed
            /\ OwnItemOnly(SubSeq(NewItems, Len(flushed) + 1, Len(NewItems)), line)

\* C16: a step that reads a list item while the paragraph buffer is not empty
\* leaves the buffer empty; when the pending paragraph ends with a colon, the step
\* stores it, normalized and without its colon, as list_context and appends no
\* item for it; otherwise it empties list_context and appends the items of the
\* paragraph, flushed as a plain paragraph, before the item of the list item.
C16_LeadParagraph ==
  [][\A line \in LineRead :
       (ListItemReached(line) /\ paragraph_buffer # <<>>) =>
         /\ paragraph_buffer' = <<>>
         /\ LeadOrFlush(Join(paragraph_buffer, <<32>>), line)]_vars

\* A list under a lead paragraph, then a list under a plain paragraph: the context
\* of the first list is gone and the plain paragraph has given its item.
C16_Witness ==
  /\ lines = <<L_H21, L_INTRO, L_ITEM, L_REQ, L_ITEM>>
  /\ list_context = <<>>
  /\ paragraph_buffer = <<>>
  /\ Len(checklist_items) = 3
  /\ checklist_items[2].item.name = L_REQ

\* The positions in rows of the section-label rows.
SectionLabelRows == {k \in DOMAIN rows : k > 1 /\ rows[k].of = 0}

\* The first item of section in gen_items.
FirstItemOf(section) ==
  CHOOSE k \in DOMAIN gen_items :
    /\ gen_items[k].section = section
    /\ \A j \in 1..(k - 1) : gen_items[j].section # section

\* C17: when generate_csv and print_stats have run, each distinct section has
\* exactly one section-label row, which lies immediately before the row of the
\* first item of that section, and the number of section-label rows is the number
\* of sections print_stats counts.
C17_OneLabelPerSection ==
  pc = "reported" =>
    /\ Cardinality(SectionLabelRows) = stats.sections
    /\ \A section \in sections_of(gen_items) :
         \E k \in SectionLabelRows :
           /\ rows[k].cells[1] = section
           /\ rows[k + 1].of = FirstItemOf(section)
           /\ \A j \in SectionLabelRows : rows[j].cells[1] = section => j = k

\* The positions in rows of the rows written for the k-th item.
RowsOfItem(k) == {j \in DOMAIN rows : rows[j].of = k}

\* The number of items among the first k that are not intro lines.
ChecksUpTo(k) == Cardinality({j \in 1..k : ~IsIntroLine(gen_items[j].item.name)})

\* The number of items among the first k whose name does not end with ':'.
NonColonUpTo(k) == Cardinality({j \in 1..k : ~EndsWith(gen_items[j].item.name, <<58>>)})

RECURSIVE SumOf(_)
SumOf(f) ==
  IF DOMAIN f = {} THEN 0
  ELSE f[CHOOSE x \in DOMAIN f : TRUE]
       + SumOf([y \in DOMAIN f \ {CHOOSE x \in DOMAIN f : TRUE} |-> f[y]])

\* The positions in rows of the rows that carry a number.
NumberCells == {j \in DOMAIN rows : rows[j].of > 0 /\ rows[j].cells[1] # <<>>}

\* C19: when generate_csv and print_stats have run on the same items, the count of
\* numbered items print_stats gives is the last number generate_csv assigned and
\* the number of rows that carry a number; with the count of unnumbered labels it
\* makes the number of items; and the counts per section add up to it.
C19_StatsAgree ==
  pc = "reported" =>
    /\ stats.actual_checks = item_num
    /\ stats.actual_checks = Cardinality(NumberCells)
    /\ stats.actual_checks + stats.intro_lines = Len(gen_items)
    /\ SumOf(stats.section_counts) = stats.actual_checks

\* Two checks in two sections and one label with a space after its colon.
C19_Witness ==
  /\ pc = "reported"
  /\ Len(gen_items) = 3
  /\ gen_items[1].item.name = N_CHECK /\ gen_items[1].section = S_MENU
  /\ gen_items[2].item.name = N_TOTAL
  /\ gen_items[3].item.name = N_CHECK /\ gen_items[3].section = S_SHOP
  /\ stats.actual_checks = 2 /\ stats.intro_lines = 1

BoundaryReached(line) ==
  /\ ~in_code_block /\ ~in_table
  /\ ~IsFence(line) /\ ~IsTableRow(line)
  /\ \/ IsNumberedHeader(line)
     \/ header_no_num(line)
     \/ IsBlank(line)
     \/ IsListItem(line)

\* The pending paragraph is consumed by the step that reads the boundary line: it
\* becomes the list context, or its items are the first the step appends.
ConsumedAt(line) ==
  IF paragraph_buffer = <<>> THEN TRUE
  ELSE IF IsListItem(line) /\ ~IsNumberedHeader(line) /\ ~header_no_num(line)
  THEN LeadOrFlush(Join(paragraph_buffer, <<32>>), line)
  ELSE NewItems = PendingItems

\* The step ends the document.
DocumentEnds == pc = "parse" /\ pc' = "parsed"

\* C21: a step leaves the paragraph buffer as it is, appends the line it reads
\* (stripped) to it, or empties it; a step that reads a boundary line outside code
\* and table blocks, and the step that ends the document, consume the whole pending
\* paragraph and leave the buffer empty; and no other step empties the buffer.
C21_BufferConsumedOnce ==
  [][/\ \/ paragraph_buffer' = paragraph_buffer
        \/ paragraph_buffer' = <<>>
        \/ \E line \in LineRead : paragraph_buffer' = Append(paragraph_buffer, Strip(line))
     /\ \A line \in LineRead :
          BoundaryReached(line) => paragraph_buffer' = <<>> /\ ConsumedAt(line)
     /\ DocumentEnds => paragraph_buffer' = <<>> /\ NewItems = PendingItems
     /\ (paragraph_buffer # <<>> /\ paragraph_buffer' = <<>>) =>
          \/ DocumentEnds
          \/ \E line \in LineRead : BoundaryReached(line)]_vars

\* Two buffered lines, flushed as one paragraph by the end of the document.
C21_Witness ==
  /\ pc = "parsed"
  /\ lines = <<L_H21, L_REQ, L_REQ>>
  /\ paragraph_buffer = <<>>
  /\ Len(checklist_items) >= 1

(***************************************************************************)
(* parse_paragraph on inline lists that begin with a lead-in and a colon.  *)
(***************************************************************************)

\* 'Игрок должен видеть следующие действия'
LI_ACTIONS ==
  <<1048, 1075, 1088, 1086, 1082, 32, 1076, 1086, 1083, 1078, 1077, 1085, 32, 1074, 1080, 1076, 1077, 1090, 1100, 32, 1089, 1083, 1077, 1076, 1091, 1102, 1097, 1080, 1077, 32, 1076, 1077, 1081, 1089, 1090, 1074, 1080, 1103>>

\* 'Кнопка должна'
LI_SHORT ==
  <<1050, 1085, 1086, 1087, 1082, 1072, 32, 1076, 1086, 1083, 1078, 1085, 1072>>

\* 'Ниже перечень вариантов выбора'
LI_PLAIN ==
  <<1053, 1080, 1078, 1077, 32, 1087, 1077, 1088, 1077, 1095, 1077, 1085, 1100, 32, 1074, 1072, 1088, 1080, 1072, 1085, 1090, 1086, 1074, 32, 1074, 1099, 1073, 1086, 1088, 1072>>

LEAD_INS == {LI_ACTIONS, LI_SHORT, LI_PLAIN}

INTRO_FRAGMENTS == {F_EMAIL, F_CAPTCHA, F_BULLET, F_ETC}

\* The paragraphs: a lead-in, ': ', and three to MaxClauses clauses joined by '; '.
INTRO_PARAGRAPHS ==
  {li \o <<58, 32>> \o Join(clauses, <<59, 32>>) :
     li \in LEAD_INS,
     clauses \in UNION {[1..n -> INTRO_FRAGMENTS] : n \in 3..MaxClauses}}

IntroInit ==
  /\ Idle
  /\ NoStack
  /\ NoArgs
  /\ pc = "parse_paragraph"
  /\ text \in INTRO_PARAGRAPHS
  /\ out = <<>>

IntroNext == CallParseParagraph

SpecIntro == IntroInit /\ [][IntroNext]_vars

\* The text that follows the match of re.match(r'^([^:]+):\s*', t).
AfterIntro(t) == From(t, SkipSpaces(t, FirstIdx(t, 1, 58) + 1))

\* The emitted names in which the lead-in of the paragraph occurs.
WithLeadIn == {i \in 1..Len(out) : Find(out[i].item.name, IntroOf(text)) # 0}

\* An inline list whose lead-in is longer than 20 characters and classifies as a
\* requirement has been flushed.
C22_LeadInFlushed ==
  /\ pc = "flushed"
  /\ Count(text, 59) >= 2
  /\ Len(IntroOf(text)) > 20
  /\ is_functional_requirement(IntroOf(text))

\* C22: such a paragraph yields the lead-in as its own item first, then one item
\* for each passing fragment of the text after the lead-in, so that the lead-in
\* occurs in exactly one emitted item.
C22_LeadInOnce ==
  C22_LeadInFlushed =>
    /\ NamesOf(out) = <<transform_to_check(IntroOf(text))>>
                        \o Reworded(PassingClauses(AfterIntro(text)))
    /\ Cardinality(WithLeadIn) = 1

(***************************************************************************)
(* split_complex_requirement on texts made of segments and separators.     *)
(***************************************************************************)

\* len(parts[0]) > 30 and len(parts[1]) > 30
SplitLimit == 30

\* The number of segments of a text.
MaxSegments == 3

\* Segment i of a text: n times the i-th letter after 'а'.
Segment(i, n) == [j \in 1..n |-> 1072 + i]

\* The lengths of the segments: short, at the limit, just above it.
SEGMENT_LENGTHS == {5, SplitLimit, SplitLimit + 1}

\* ' и ', which is no marker
SEP_AND == <<32, 1080, 32>>

\* What stands between two segments: ', а также', ', а ', ', где ', ' и '.
SEPARATORS == {SPLIT_MARKERS[1], SPLIT_MARKERS[2], SPLIT_MARKERS[7], SEP_AND}

\* The segments of the given lengths joined by the given separators.
RECURSIVE Segmented(_, _, _)
Segmented(lens, seps, i) ==
  IF i = Len(lens) THEN Segment(i, lens[i])
  ELSE Segment(i, lens[i]) \o seps[i] \o Segmented(lens, seps, i + 1)

\* The texts of one to MaxSegments segments with lengths among lengths.
TextsOf(lengths) ==
  UNION {{Segmented(lens, seps, 1) : lens \in [1..n -> lengths],
                                     seps \in [1..(n - 1) -> SEPARATORS]} :
         n \in 1..MaxSegments}

SPLIT_TEXTS == TextsOf(SEGMENT_LENGTHS)

\* out = self.split_complex_requirement(text)
CallSplit ==
  /\ pc = "split_complex_requirement"
  /\ pc' = "split"
  /\ out' = split_complex_requirement(text)
  /\ UNCHANGED <<parser_vars, text, stack, args, gen_vars, main_vars>>

SplitInit ==
  /\ Idle
  /\ NoStack
  /\ NoArgs
  /\ pc = "split_complex_requirement"
  /\ text \in SPLIT_TEXTS
  /\ out = <<>>

SplitNext == CallSplit

SpecSplit == SplitInit /\ [][SplitNext]_vars

\* marker occurs in t and both parts of t.split(marker, 1) are longer than 30.
SplitsAt(t, marker) ==
  /\ Find(t, marker) # 0
  /\ Find(t, marker) - 1 > SplitLimit
  /\ Len(t) - (Find(t, marker) + Len(marker)) + 1 > SplitLimit

Splittable(t) == \E k \in 1..Len(SPLIT_MARKERS) : SplitsAt(t, SPLIT_MARKERS[k])

\* The first position >= from at which part occurs in t, 0 when there is none.
FindFrom(t, part, from) ==
  IF \E i \in from..(Len(t) - Len(part) + 1) : StartsWithAt(t, i, part)
  THEN Least({i \in from..(Len(t) - Len(part) + 1) : StartsWithAt(t, i, part)})
  ELSE 0

\* parts[k..] occur in t one after the other, without overlap, from position from on.
RECURSIVE InSourceOrder(_, _, _, _)
InSourceOrder(t, parts, k, from) ==
  \/ k > Len(parts)
  \/ /\ FindFrom(t, parts[k], from) # 0
     /\ InSourceOrder(t, parts, k + 1, FindFrom(t, parts[k], from) + Len(parts[k]))

\* C23: the text is split exactly when one of the markers splits it into two parts
\* that are both longer than 30 characters; otherwise the result is the text alone,
\* unchanged; when more than one sub-clause is returned each is longer than 30
\* characters; and the sub-clauses begin and end the text and follow one another in it.
C23_SplitOnlyLongHalves ==
  pc = "split" =>
    /\ Len(out) >= 1
    /\ (Len(out) > 1) <=> Splittable(text)
    /\ ~Splittable(text) => out = <<text>>
    /\ Len(out) > 1 => \A i \in 1..Len(out) : Len(out[i]) > SplitLimit
    /\ InSourceOrder(text, out, 1, 1)
    /\ StartsWithAt(text, 1, out[1])
    /\ StartsWithAt(text, Len(text) - Len(out[Len(out)]) + 1, out[Len(out)])

\* 31 letters, ', а также', 31 letters, ', где ', 31 letters: three sub-clauses.
C23_Witness ==
  /\ pc = "split"
  /\ text = Segment(1, 31) \o SPLIT_MARKERS[1] \o Segment(2, 31)
              \o SPLIT_MARKERS[7] \o Segment(3, 31)
  /\ out = <<Segment(1, 31), Segment(2, 31), Segment(3, 31)>>

(***************************************************************************)
(* split_complex_requirement call by call: stack holds the texts of the    *)
(* calls still to run, the next one first; out is results as the calls     *)
(* that return their text extend it.                                       *)
(***************************************************************************)

\* text.split(marker, 1) for the k-th marker
PartsAt(t, k) == SplitOnce(t, SPLIT_MARKERS[k], Find(t, SPLIT_MARKERS[k]))

\* The for loop over SPLIT_MARKERS[k..]: the position of the first marker that is in
\* t and splits it into two parts longer than 30 characters, 0 when there is none.
RECURSIVE SplitIndex(_, _)
SplitIndex(t, k) ==
  IF k > Len(SPLIT_MARKERS) THEN 0
  ELSE IF /\ Find(t, SPLIT_MARKERS[k]) # 0
          /\ Len(PartsAt(t, k)) = 2
          /\ Len(PartsAt(t, k)[1]) > 30
          /\ Len(PartsAt(t, k)[2]) > 30
       THEN k
       ELSE SplitIndex(t, k + 1)

\* Calls that take the whole text again in place of its first part.
SubCallsOnText(t, parts) == <<t, parts[2]>>

\* The recursive calls of a call on t that splits it into parts, in order.
SubCalls(t, parts) == <<parts[1], parts[2]>>

\* A call whose text is split: it calls itself on parts[0], then on parts[1].
SplitRecurse ==
  /\ pc = "split_complex_requirement"
  /\ stack # <<>>
  /\ \E t \in {Head(stack)} :
       \E k \in {SplitIndex(t, 1)} :
         /\ k # 0
         /\ stack' = SubCalls(t, PartsAt(t, k)) \o Tail(stack)
  /\ UNCHANGED <<parser_vars, pc, text, out, args, gen_vars, main_vars>>

\* A call whose text is not split: results.append(text); return results
SplitReturnText ==
  /\ pc = "split_complex_requirement"
  /\ stack # <<>>
  /\ \E t \in {Head(stack)} :
       /\ SplitIndex(t, 1) = 0
       /\ out' = Append(out, t)
  /\ stack' = Tail(stack)
  /\ UNCHANGED <<parser_vars, pc, text, args, gen_vars, main_vars>>

\* The outermost call returns.
SplitReturn ==
  /\ pc = "split_complex_requirement"
  /\ stack = <<>>
  /\ pc' = "split"
  /\ UNCHANGED <<parser_vars, text, out, stack, args, gen_vars, main_vars>>

\* The texts of the calls followed step by step: segments at the limit and above it.
STEP_TEXTS == TextsOf({SplitLimit, SplitLimit + 1})

SplitStepsInit ==
  /\ Idle
  /\ NoArgs
  /\ pc = "split_complex_requirement"
  /\ text \in STEP_TEXTS
  /\ out = <<>>
  /\ stack = <<text>>

SplitStepsNext ==
  \/ SplitRecurse
  \/ SplitReturnText
  \/ SplitReturn

\* A call that has begun runs on: the interpreter executes it statement by statement.
SpecSplitSteps == SplitStepsInit /\ [][SplitStepsNext]_vars /\ WF_vars(SplitStepsNext)

\* C24: every call that calls itself does so on two texts that are both strictly
\* shorter than its own, the outermost call returns, and what it returns is a list
\* that is not empty, the list split_complex_requirement is defined to give.
C24_SplitTerminates ==
  /\ [][Len(stack') > Len(stack) =>
          /\ Len(stack') = Len(stack) + 1
          /\ Len(stack'[1]) < Len(stack[1])
          /\ Len(stack'[2]) < Len(stack[1])]_vars
  /\ <>(pc = "split" /\ Len(out) >= 1)
  /\ [](pc = "split" => out = split_complex_requirement(text))

\* A text split twice has returned its three sub-clauses through two calls that
\* called themselves.
C24_Witness ==
  /\ pc = "split"
  /\ stack = <<>>
  /\ Len(out) = 3
  /\ Len(text) > 3 * SplitLimit

(***************************************************************************)
(* TestDataGenerator: the boundary values of a numeric field and of a      *)
(* length.  args = <<min, max>> as the console has read them.  Python's    *)
(* int has no width.  The description of an entry and the tail of its      *)
(* test_case are texts formatted from the entry's number and are left out. *)
(***************************************************************************)

\* 'POSITIVE' if expected_valid else 'NEGATIVE'
TestCase(expected_valid) == IF expected_valid THEN "POSITIVE" ELSE "NEGATIVE"

\* One tuple of boundaries, as the dict the for loop appends to test_data.
NumericEntry(value, boundary_type, expected_valid) ==
  [value |-> value, boundary_type |-> boundary_type, expected_valid |-> expected_valid,
   test_case |-> TestCase(expected_valid)]

\* TestDataGenerator.generate_numeric_boundary_test_data
generate_numeric_boundary_test_data(min_val, max_val) ==
  << NumericEntry(min_val - 1, "below_min", FALSE),
     NumericEntry(min_val, "min", TRUE),
     NumericEntry(min_val + 1, "above_min", TRUE),
     NumericEntry(max_val - 1, "below_max", TRUE),
     NumericEntry(max_val, "max", TRUE),
     NumericEntry(max_val + 1, "above_max", FALSE) >>

\* The numbers the console is given are between -MaxNumber and MaxNumber.
MaxNumber == 4

NUMBERS == (0 - MaxNumber)..MaxNumber

\* if max_val < min_val: print(...); return
NumericBoundaryRejected ==
  /\ pc = "numeric_boundary"
  /\ args[2] < args[1]
  /\ pc' = "rejected"
  /\ UNCHANGED <<parser_vars, fn_vars, gen_vars, main_vars>>

\* test_data = self.generator.generate_numeric_boundary_test_data(...)
NumericBoundaryGenerated ==
  /\ pc = "numeric_boundary"
  /\ ~(args[2] < args[1])
  /\ pc' = "numeric_generated"
  /\ out' = generate_numeric_boundary_test_data(args[1], args[2])
  /\ UNCHANGED <<parser_vars, text, stack, args, gen_vars, main_vars>>

NumericInit ==
  /\ Idle
  /\ NoStack
  /\ pc = "numeric_boundary"
  /\ text = <<>>
  /\ out = <<>>
  /\ args \in NUMBERS \X NUMBERS

NumericNext ==
  \/ NumericBoundaryRejected
  \/ NumericBoundaryGenerated

SpecNumeric == NumericInit /\ [][NumericNext]_vars

\* One dict of get_boundary_lengths.
LengthEntry(length, boundary_type, expected_valid) ==
  [length |-> length, boundary_type |-> boundary_type, expected_valid |-> expected_valid]

\* An entry that is appended only if present holds.
EntryIf(present, entry) == IF present THEN <<entry>> ELSE <<>>

\* TestDataGenerator.get_boundary_lengths
get_boundary_lengths(min_len, max_len) ==
  EntryIf(min_len > 0, LengthEntry(min_len - 1, "below_min", FALSE))
    \o <<LengthEntry(min_len, "min", TRUE)>>
    \o EntryIf(min_len + 1 <= max_len, LengthEntry(min_len + 1, "above_min", TRUE))
    \o EntryIf(max_len - 1 >= min_len /\ max_len - 1 # min_len + 1,
               LengthEntry(max_len - 1, "below_max", TRUE))
    \o <<LengthEntry(max_len, "max", TRUE)>>
    \o <<LengthEntry(max_len + 1, "above_max", FALSE)>>

\* The lengths the console is given are between -1 and MaxLength.
MaxLength == 9

LENGTHS == (0 - 1)..MaxLength

\* if min_len < 0: print(...); return
LengthRejectedNegative ==
  /\ pc = "boundary_lengths"
  /\ args[1] < 0
  /\ pc' = "rejected"
  /\ UNCHANGED <<parser_vars, fn_vars, gen_vars, main_vars>>

\* if max_len < min_len: print(...); return
LengthRejectedOrder ==
  /\ pc = "boundary_lengths"
  /\ ~(args[1] < 0)
  /\ args[2] < args[1]
  /\ pc' = "rejected"
  /\ UNCHANGED <<parser_vars, fn_vars, gen_vars, main_vars>>

\* boundaries = self.get_boundary_lengths(min_len, max_len)
LengthsGenerated ==
  /\ pc = "boundary_lengths"
  /\ ~(args[1] < 0)
  /\ ~(args[2] < args[1])
  /\ pc' = "lengths_generated"
  /\ out' = get_boundary_lengths(args[1], args[2])
  /\ UNCHANGED <<parser_vars, text, stack, args, gen_vars, main_vars>>

LengthsInit ==
  /\ Idle
  /\ NoStack
  /\ pc = "boundary_lengths"
  /\ text = <<>>
  /\ out = <<>>
  /\ args \in LENGTHS \X LENGTHS

LengthsNext ==
  \/ LengthRejectedNegative
  \/ LengthRejectedOrder
  \/ LengthsGenerated

SpecLengths == LengthsInit /\ [][LengthsNext]_vars

\* C25: for min_val <= max_val the result holds the six entries below_min, min,
\* above_min, below_max, max, above_max in that order, and an entry is flagged
\* valid exactly when its value lies between min_val and max_val.
C25_FlagIffInBounds ==
  pc = "numeric_generated" =>
    /\ [i \in 1..Len(out) |-> out[i].boundary_type]
         = <<"below_min", "min", "above_min", "below_max", "max", "above_max">>
    /\ \A i \in 1..Len(out) :
         out[i].expected_valid <=> (args[1] <= out[i].value /\ out[i].value <= args[2])

\* C30: for 0 <= min_len <= max_len the lengths of the entries are strictly
\* increasing in list order, hence pairwise distinct.
C30_LengthsIncrease ==
  pc = "lengths_generated" =>
    \A i, j \in 1..Len(out) : i < j => out[i].length < out[j].length

\* C26: while extraction is not active the paragraph buffer is empty.
C26_InactiveBufferEmpty == ~parsing_active => paragraph_buffer = <<>>

\* The heading that left the scope has flushed the paragraph buffered before it.
C26_Witness ==
  /\ pc = "parse"
  /\ lines = <<L_H21, L_REQ, L_H31>>
  /\ ~parsing_active
  /\ paragraph_buffer = <<>>
  /\ Len(checklist_items) = 1

(***************************************************************************)
(* Documents with code blocks and tables inside a section: the first line  *)
(* is the heading of section 2.1, the others are drawn from BLOCK_LINES.   *)
(***************************************************************************)

\* The length of the documents with blocks.
MaxBlockLines == 5

\* A paragraph line, a table row, a blank line, a fence, a heading out of scope, a
\* list item.
BLOCK_LINES == {L_REQ, L_TABLE, L_BLANK, L_FENCE, L_H31, L_ITEM}

\* The documents begin with the heading of section 2.1, which occurs nowhere else.
FitsBlocks(line) == (lines = <<>>) <=> (line = L_H21)

BlocksInit ==
  /\ ParserInit(<<50>>)
  /\ LinesUpTo(MaxBlockLines)
  /\ pc = "parse"
  /\ NoCall
  /\ GeneratorInit
  /\ MainRunning

BlocksNext ==
  \/ \E line \in BLOCK_LINES \cup {L_H21} :
       \/ FitsBlocks(line) /\ CodeFence(line)
       \/ FitsBlocks(line) /\ InCodeBlock(line)
       \/ FitsBlocks(line) /\ TableRow(line)
       \/ FitsBlocks(line) /\ TableEnd(line)
       \/ FitsBlocks(line) /\ InTable(line)
       \/ FitsBlocks(line) /\ NumberedHeader(line)
       \/ FitsBlocks(line) /\ Inactive(line)
       \/ FitsBlocks(line) /\ BlankLine(line)
       \/ FitsBlocks(line) /\ ListItem(line)
       \/ FitsBlocks(line) /\ TextLine(line)
  \/ EndOfDocument

SpecBlocks == BlocksInit /\ [][BlocksNext]_vars

\* The document read so far holds no fence, and a row with two or more '|' that no
\* blank line follows.
TableOpen ==
  /\ \A k \in 1..Len(lines) : ~IsFence(lines[k])
  /\ \E k \in 1..Len(lines) :
       /\ IsTableRow(lines[k])
       /\ \A j \in (k + 1)..Len(lines) : ~IsBlank(lines[j])

\* The step changes nothing of the parser but in_table.
LineSkipped ==
  UNCHANGED <<checklist_items, item_counter, parsing_active, list_context,
              current_section, current_section_num, paragraph_buffer, in_code_block>>

RECURSIVE OutsideBlocks(_, _, _, _)
OutsideBlocks(doc, k, code, table) ==
  IF k > Len(doc) THEN <<>>
  ELSE IF IsFence(doc[k]) THEN OutsideBlocks(doc, k + 1, ~code, table)
  ELSE IF code THEN OutsideBlocks(doc, k + 1, code, table)
  ELSE IF IsTableRow(doc[k]) THEN OutsideBlocks(doc, k + 1, code, TRUE)
  ELSE IF table THEN OutsideBlocks(doc, k + 1, code, ~IsBlank(doc[k]))
  ELSE <<doc[k]>> \o OutsideBlocks(doc, k + 1, code, table)

\* line is a text line: no heading, not blank, no list item, and it is buffered.
IsTextLine(line) ==
  /\ ~IsNumberedHeader(line) /\ ~header_no_num(line)
  /\ ~IsBlank(line) /\ ~IsListItem(line)
  /\ IsBuffered(Strip(line))

\* The elements of the sequence ls.
Range(ls) == {ls[k] : k \in 1..Len(ls)}

Stripped(ls) == SubSeq([k \in 1..Len(ls) |-> Strip(ls[k])], 1, Len(ls))

\* The document read so far is the heading of section 2.1 followed by text lines,
\* code blocks and tables only: no flushing boundary lies outside the blocks.
TextAndBlocksOnly ==
  /\ lines # <<>>
  /\ lines[1] = L_H21
  /\ \A line \in Range(OutsideBlocks(lines, 2, FALSE, FALSE)) : IsTextLine(line)

\* A code block or a table lies between two text lines of the document.
BlockBetweenText ==
  \E i, j, k \in 1..Len(lines) :
    /\ i < j /\ j < k
    /\ IsTextLine(lines[i]) /\ IsTextLine(lines[k])
    /\ IsFence(lines[j]) \/ IsTableRow(lines[j])

\* C28: in a section whose lines are text lines, code blocks and tables only, the
\* text lines outside the blocks, those before a block and those after it alike,
\* are all in the paragraph buffer and nothing has been emitted; at the end of the
\* document they are flushed, joined, as one single paragraph.
C28_BlocksJoinParagraph ==
  TextAndBlocksOnly =>
    IF pc = "parsed"
    THEN /\ paragraph_buffer = <<>>
         /\ checklist_items =
              parse_paragraph(Join(Stripped(OutsideBlocks(lines, 2, FALSE, FALSE)), <<32>>),
                              S_MENU, 0)
    ELSE /\ paragraph_buffer = Stripped(OutsideBlocks(lines, 2, FALSE, FALSE))
         /\ checklist_items = <<>>

\* A text line, a table closed by a blank line, a text line: one item for the two
\* text lines joined.
C28_Witness ==
  /\ pc = "parsed"
  /\ lines = <<L_H21, L_REQ, L_TABLE, L_BLANK, L_REQ>>
  /\ BlockBetweenText
  /\ Len(checklist_items) = 1
  /\ checklist_items[1].item.name = L_REQ \o <<32>> \o L_REQ

\* C29: item_counter is the number of entries of checklist_items and the i-th entry
\* carries number i; a step adds to the counter the number of entries it appends,
\* and it removes or changes no entry.
C29_CounterIsLength ==
  /\ [](/\ item_counter = Len(checklist_items)
        /\ \A i \in 1..Len(checklist_items) : checklist_items[i].item.number = i)
  /\ [][/\ Len(checklist_items') >= Len(checklist_items)
        /\ SubSeq(checklist_items', 1, Len(checklist_items)) = checklist_items
        /\ item_counter' - item_counter = Len(checklist_items') - Len(checklist_items)]_vars

\* A paragraph flushed by a list item, then the list item: numbers 1 and 2.
C29_Witness ==
  /\ lines = <<L_H21, L_REQ, L_ITEM>>
  /\ item_counter = 2
  /\ Len(checklist_items) = 2
  /\ checklist_items[1].item.number = 1
  /\ checklist_items[2].item.number = 2

====
